---- MODULE Spec2Model ----
(***************************************************************************)
(* PDF-Merger: the Express backend (server.ts), the Vercel handler         *)
(* (api/merge-pdfs.ts), the in-browser merge (App.tsx variant kept in      *)
(* api/merge-pdfs.ts) and the text helpers they share.                     *)
(*                                                                         *)
(* Strings are sequences of one-character strings; a regular expression of *)
(* the source is a tree evaluated by a backtracking matcher with           *)
(* JavaScript's priorities (leftmost start, greedy/lazy order).            *)
(***************************************************************************)
EXTENDS Integers, Sequences, FiniteSets, TLC

\* ------------------------------------------------------------------ bounds
\* longest raw candidate handed to cleanupCandidateName in SpecSan
MaxRawTokens == 4
\* most files in one upload
MaxFiles == 4

\* ------------------------------------------------------------- characters
UpperCase == <<"A","B","C","D","E","F","G","H","I","J","K","L","M",
               "N","O","P","Q","R","S","T","U","V","W","X","Y","Z">>
LowerCase == <<"a","b","c","d","e","f","g","h","i","j","k","l","m",
               "n","o","p","q","r","s","t","u","v","w","x","y","z">>
Digits == {"0","1","2","3","4","5","6","7","8","9"}
Uppers == {UpperCase[i] : i \in 1..26}
Lowers == {LowerCase[i] : i \in 1..26}
Letters == Uppers \cup Lowers
\* JavaScript's \s, as far as the texts of the model go
WhiteSpace == {" ", "\t", "\n", "\r"}
\* [\\/:*?"<>|]
IllegalChars == {"\\", "/", ":", "*", "?", "\"", "<", ">", "|"}
\* the degree sign of "N°" (U+00B0), which the module's character set cannot spell
Degree == "<deg>"
\* the masculine ordinal indicator (U+00BA), likewise
Ordinal == "<ord>"
\* the capital I with dot above (U+0130): the one character whose lower case is
\* two code units, "i" and the combining dot above (U+0307)
DottedI == "<I-dot>"
DotAbove == "<dot-above>"
\* every character a text or a filename of the model is made of
Chars == Letters \cup Digits \cup WhiteSpace \cup IllegalChars
           \cup {".", "-", "_", "'", ",", Degree, Ordinal, DottedI, DotAbove}

\* the absent value (null / undefined): no string is equal to it
Null == <<"<null>">>

\* String.prototype.toLowerCase, one character
Lower(c) == IF c \in Uppers THEN LowerCase[CHOOSE i \in 1..26 : UpperCase[i] = c] ELSE c
Upper(c) == IF c \in Lowers THEN UpperCase[CHOOSE i \in 1..26 : LowerCase[i] = c] ELSE c
\* String.prototype.toLowerCase: character by character, U+0130 giving two
RECURSIVE LowerFrom(_, _)
LowerFrom(s, i) ==
  IF i > Len(s) THEN <<>>
  ELSE (IF s[i] = DottedI THEN <<"i", DotAbove>> ELSE <<Lower(s[i])>>) \o LowerFrom(s, i + 1)
ToLower(s) ==
  IF \A i \in 1..Len(s) : s[i] # DottedI THEN [i \in 1..Len(s) |-> Lower(s[i])]
  ELSE LowerFrom(s, 1)

\* ----------------------------------------------------------- string helpers
\* String.prototype.indexOf: the 0-based index of the first occurrence, or -1
IndexOf(s, w) ==
  LET hits == {i \in 1..(Len(s) - Len(w) + 1) : SubSeq(s, i, i + Len(w) - 1) = w}
  IN  IF hits = {} THEN -1 ELSE (CHOOSE i \in hits : \A j \in hits : i <= j) - 1

\* String.prototype.includes
Includes(s, w) == IndexOf(s, w) >= 0

\* String.prototype.slice(0, n), n >= 0
Slice0(s, n) == SubSeq(s, 1, IF n < Len(s) THEN n ELSE Len(s))

\* String.prototype.trim
Trim(s) ==
  LET keep == {i \in 1..Len(s) : s[i] \notin WhiteSpace}
  IN  IF keep = {} THEN <<>>
      ELSE SubSeq(s, CHOOSE i \in keep : \A j \in keep : i <= j,
                     CHOOSE i \in keep : \A j \in keep : i >= j)

\* a replacement that strips nothing
StripNothing(s) == s
\* .replace(/[\\/:*?"<>|]/g, "")
StripIllegal(s) == SelectSeq(s, LAMBDA c : c \notin IllegalChars)

\* .replace(/\s+/g, " "): every maximal run of whitespace becomes one space
\* (a character of a run that is not its first is marked and then dropped)
Dropped == "<dropped>"
CollapseRuns(s, blanks) ==
  SelectSeq([i \in 1..Len(s) |->
               IF s[i] \in blanks
               THEN IF i > 1 /\ s[i - 1] \in blanks THEN Dropped ELSE " "
               ELSE s[i]],
            LAMBDA c : c # Dropped)
CollapseWs(s) == CollapseRuns(s, WhiteSpace)

\* Number -> decimal string (template literal `${suffix}`), n >= 0
DigitSeq == <<"0","1","2","3","4","5","6","7","8","9">>
RECURSIVE Decimal(_)
Decimal(n) == IF n < 10 THEN <<DigitSeq[n + 1]>>
              ELSE Decimal(n \div 10) \o <<DigitSeq[(n % 10) + 1]>>

\* ------------------------------------------------------------ server utils
\* safePdfFileName: never empty, "Documento" stands in
Documento == <<"D","o","c","u","m","e","n","t","o">>
safePdfFileName(name) ==
  LET cleaned == Trim(CollapseWs(StripIllegal(name)))
  IN  IF Len(cleaned) > 0 THEN cleaned ELSE Documento

\* safeName of the Vercel handler
safeName(s) == Trim(CollapseWs(StripIllegal(s)))

\* safeFilenamePart of the in-browser merge
FilenamePartMax == 140
safeFilenamePart(s) == Slice0(Trim(CollapseWs(StripIllegal(s))), FilenamePartMax)

\* /(\d{2}-\d{4,})/ : the leftmost match, its digits taken greedily
GroupIdMinDigits == 4
\* a run of digits that ends at its fourth
DigitRunEndFour(s, i) == i + GroupIdMinDigits - 1
RECURSIVE DigitRunEnd(_, _)
DigitRunEnd(s, i) == IF i <= Len(s) /\ s[i] \in Digits THEN DigitRunEnd(s, i + 1) ELSE i - 1
extractGroupIdFromFilename(fileName) ==
  LET starts == {i \in 1..Len(fileName) :
                   /\ i + 2 + GroupIdMinDigits <= Len(fileName)
                   /\ fileName[i] \in Digits /\ fileName[i + 1] \in Digits
                   /\ fileName[i + 2] = "-"
                   /\ \A k \in 1..GroupIdMinDigits : fileName[i + 2 + k] \in Digits}
  IN  IF starts = {} THEN Null
      ELSE LET i == CHOOSE x \in starts : \A y \in starts : x <= y
           IN  SubSeq(fileName, i, DigitRunEnd(fileName, i + 3))

\* /allegato/i
Allegato == <<"a","l","l","e","g","a","t","o">>
isAllegato(fileName) == Includes(ToLower(fileName), Allegato)

\* the stop words of cleanupCandidateName, in the order of the list
stopWords == << <<"f","a","t","t","u","r","a">>,
                <<"d","a","t","a">>,
                <<"d","e","l">>,
                <<"c","o","m","p","e","t","e","n","z","a">>,
                <<"c","o","d","i","c","e">>,
                <<"p",".","i","v","a">>,
                <<"p","a","r","t","i","t","a">>,
                <<"e","m","a","i","l">>,
                <<"t","e","l","e","f","o","n","o">>,
                <<"i","n","d","i","r","i","z","z","o">>,
                <<"v","i","a">>,
                <<"p","a","g","i","n","a">> >>

\* one turn of the stop-word loop: cut at ` ${w}` when it is found past index 0
CutAtStopWord(s, w) ==
  LET idx == IndexOf(ToLower(s), <<" ">> \o w)
  IN  IF idx > 0 THEN Trim(Slice0(s, idx)) ELSE s

RECURSIVE CutStopWords(_, _)
CutStopWords(s, k) ==
  IF k > Len(stopWords) THEN s ELSE CutStopWords(CutAtStopWord(s, stopWords[k]), k + 1)

\* the two rejections of cleanupCandidateName
MinNameLen == 4
\* a length test that rejects nothing
TooShortNever(s) == Len(s) < 0
TooShort(s) == Len(s) < MinNameLen
\* /^[\d\s/.-]+$/
NumberLike(s) ==
  Len(s) > 0 /\ \A i \in 1..Len(s) : s[i] \in Digits \cup WhiteSpace \cup {"/", ".", "-"}

\* if (s.length < 4) return null; if (/^[\d\s/.-]+$/.test(s)) return null; return s
RejectOrKeep(s) ==
  IF TooShort(s) THEN Null
  ELSE IF NumberLike(s) THEN Null
  ELSE s

cleanupCandidateName(raw) ==
  RejectOrKeep(CutStopWords(Trim(CollapseWs(StripIllegal(raw))), 1))

\* ------------------------------------------------------- regular expressions
\* A regular expression is a tree; Runs gives every way it matches at a position,
\* in the order JavaScript's backtracking tries them, so the head is the match.
\* A match is [e |-> the position after it, c |-> the capture groups' spans].
NoCaps == << <<0, 0>>, <<0, 0>> >>
Ch(c) == [t |-> "set", s |-> {c}]
Set(S) == [t |-> "set", s |-> S]
\* a character class under the /i flag
SetCI(S) == [t |-> "set", s |-> S \cup {Lower(c) : c \in S} \cup {Upper(c) : c \in S}]
Cat(rs) == [t |-> "cat", rs |-> rs]
Alt(rs) == [t |-> "alt", rs |-> rs]
\* r{lo,hi}; hi = -1 is unbounded
Rep(r, lo, hi) == [t |-> "rep", r |-> r, lo |-> lo, hi |-> hi, lazy |-> FALSE]
RepLazy(r, lo, hi) == [t |-> "rep", r |-> r, lo |-> lo, hi |-> hi, lazy |-> TRUE]
Star(r) == Rep(r, 0, -1)
Plus(r) == Rep(r, 1, -1)
Opt(r) == Rep(r, 0, 1)
Cap(n, r) == [t |-> "cap", n |-> n, r |-> r]
WordB == [t |-> "wordb"]
Eos == [t |-> "eos"]
\* a literal word, and the same (given in lowercase) under the /i flag
Lit(w) == [t |-> "lit", w |-> w, ci |-> FALSE]
LitCI(w) == [t |-> "lit", w |-> w, ci |-> TRUE]

\* \w
WordChars == Letters \cup Digits \cup {"_"}
IsWordAt(s, i) == i >= 1 /\ i <= Len(s) /\ s[i] \in WordChars

RECURSIVE Runs(_, _, _, _)
RECURSIVE Expand(_, _, _, _, _)
RECURSIVE CatRuns(_, _, _, _)
RECURSIVE AltRuns(_, _, _, _, _)
RECURSIVE RepRuns(_, _, _, _, _)
RECURSIVE RepMore(_, _, _, _, _, _)

\* every match of r continued from each of the matches ms[lo..hi], in order
Expand(r, s, ms, lo, hi) ==
  IF lo > hi THEN <<>>
  ELSE IF lo = hi THEN Runs(r, s, ms[lo].e, ms[lo].c)
  ELSE LET mid == (lo + hi) \div 2
       IN  Expand(r, s, ms, lo, mid) \o Expand(r, s, ms, mid + 1, hi)

CatRuns(rs, k, s, ms) ==
  IF k > Len(rs) THEN ms ELSE CatRuns(rs, k + 1, s, Expand(rs[k], s, ms, 1, Len(ms)))

AltRuns(rs, k, s, i, c) ==
  IF k > Len(rs) THEN <<>> ELSE Runs(rs[k], s, i, c) \o AltRuns(rs, k + 1, s, i, c)

\* a repeated character class: the run of its characters from i is k long, and
\* the match may take lo..min(k, hi) of them, most first when greedy
SetRepRuns(re, s, i, c) ==
  LET stops == {j \in i..Len(s) : s[j] \notin re.r.s}
      k     == (IF stops = {} THEN Len(s) + 1
                ELSE CHOOSE j \in stops : \A x \in stops : j <= x) - i
      top   == IF re.hi >= 0 /\ re.hi < k THEN re.hi ELSE k
      cnt   == IF top >= re.lo THEN top - re.lo + 1 ELSE 0
  IN  [j \in 1..cnt |->
         [e |-> i + (IF re.lazy THEN re.lo + j - 1 ELSE top - j + 1), c |-> c]]

\* n repetitions are done; greedy tries one more first, lazy tries to stop first
RepRuns(re, s, i, c, n) ==
  LET one  == SelectSeq(Runs(re.r, s, i, c), LAMBDA m : m.e > i)
      more == IF re.hi < 0 \/ n < re.hi THEN RepMore(re, s, one, n + 1, 1, Len(one))
              ELSE <<>>
      stop == IF n >= re.lo THEN <<[e |-> i, c |-> c]>> ELSE <<>>
  IN  IF re.lazy THEN stop \o more ELSE more \o stop

RepMore(re, s, ms, n, lo, hi) ==
  IF lo > hi THEN <<>>
  ELSE IF lo = hi THEN RepRuns(re, s, ms[lo].e, ms[lo].c, n)
  ELSE LET mid == (lo + hi) \div 2
       IN  RepMore(re, s, ms, n, lo, mid) \o RepMore(re, s, ms, n, mid + 1, hi)

CapRuns(n, from, ms) ==
  [j \in 1..Len(ms) |-> [e |-> ms[j].e, c |-> [ms[j].c EXCEPT ![n] = <<from, ms[j].e - 1>>]]]

LitRuns(re, s, i, c) ==
  LET n == Len(re.w)
  IN  IF /\ i + n - 1 <= Len(s)
         /\ \A k \in 1..n : (IF re.ci THEN Lower(s[i + k - 1]) ELSE s[i + k - 1]) = re.w[k]
      THEN <<[e |-> i + n, c |-> c]>> ELSE <<>>

Runs(re, s, i, c) ==
  CASE re.t = "set"   -> IF i <= Len(s) /\ s[i] \in re.s
                         THEN <<[e |-> i + 1, c |-> c]>> ELSE <<>>
    [] re.t = "cat"   -> CatRuns(re.rs, 1, s, <<[e |-> i, c |-> c]>>)
    [] re.t = "alt"   -> AltRuns(re.rs, 1, s, i, c)
    [] re.t = "lit"   -> LitRuns(re, s, i, c)
    [] re.t = "rep"   -> IF re.r.t = "set" THEN SetRepRuns(re, s, i, c)
                         ELSE RepRuns(re, s, i, c, 0)
    [] re.t = "cap"   -> CapRuns(re.n, i, Runs(re.r, s, i, c))
    [] re.t = "wordb" -> IF IsWordAt(s, i - 1) # IsWordAt(s, i)
                         THEN <<[e |-> i, c |-> c]>> ELSE <<>>
    [] re.t = "eos"   -> IF i = Len(s) + 1 THEN <<[e |-> i, c |-> c]>> ELSE <<>>

\* String.prototype.match without the g flag: the leftmost match, or found = FALSE
Match(re, s) ==
  LET starts == {i \in 1..(Len(s) + 1) : Len(Runs(re, s, i, NoCaps)) > 0}
  IN  IF starts = {} THEN [found |-> FALSE, from |-> 0, to |-> 0, c |-> NoCaps]
      ELSE LET i == CHOOSE x \in starts : \A y \in starts : x <= y
               m == Runs(re, s, i, NoCaps)[1]
           IN  [found |-> TRUE, from |-> i, to |-> m.e - 1, c |-> m.c]
\* m[0] and m[n] of a match that was found (a group that took part in it)
Whole(s, m) == SubSeq(s, m.from, m.to)
Group(s, m, n) == SubSeq(s, m.c[n][1], m.c[n][2])

\* ------------------------------------------------------------ documents
\* A document: its filename, its pages (a page is the sequence of its text items,
\* one per line), whether the text parser (pdf-parse, pdf.js) rejects its bytes
\* and whether pdf-lib's PDFDocument.load does.
\* pdf-parse: a page's items joined by "\n", every page preceded by "\n\n"
RECURSIVE JoinWith(_, _)
JoinWith(items, sep) ==
  IF items = <<>> THEN <<>>
  ELSE IF Len(items) = 1 THEN items[1]
  ELSE items[1] \o sep \o JoinWith(Tail(items), sep)

RECURSIVE PdfParseText(_)
PdfParseText(pages) ==
  IF pages = <<>> THEN <<>>
  ELSE <<"\n", "\n">> \o JoinWith(pages[1], <<"\n">>) \o PdfParseText(Tail(pages))

\* readPageText of extractDocInfo: tc.items.map(it => it.str).join(" ")
readPageText(pages, n) == JoinWith(pages[n], <<" ">>)

\* ------------------------------------------------------- text normalisation
\* .replace(/[ \t]+/g, " ")
CollapseBlanks(s) == CollapseRuns(s, {" ", "\t"})

\* .replace(/\n{3,}/g, "\n\n"): a newline is dropped when two newlines precede it
\* and kept otherwise, which leaves two of every run of three or more
CollapseNewlines(s) ==
  SelectSeq([i \in 1..Len(s) |->
               IF s[i] = "\n" /\ i > 2 /\ s[i - 1] = "\n" /\ s[i - 2] = "\n"
               THEN Dropped ELSE s[i]],
            LAMBDA c : c # Dropped)

normalizeTextForSearch(t) ==
  LET a == [i \in 1..Len(t) |-> IF t[i] = "\r" THEN "\n" ELSE t[i]]
  IN  Trim(CollapseNewlines(CollapseBlanks(a)))

\* ------------------------------------------------- extraction (Express)
IntestatarioWord == <<"i","n","t","e","s","t","a","t","a","r","i","o">>
WS == Set(WhiteSpace)
NotNL == Set(Chars \ {"\n"})
NotNLCR == Set(Chars \ {"\n", "\r"})
Digit == Set(Digits)

\* /Intestatario\s*:\s*([^\n]+)\n?/i
ReIntestatarioSameLine ==
  Cat(<<LitCI(IntestatarioWord), Star(WS), Ch(":"), Star(WS),
        Cap(1, Plus(NotNL)), Opt(Ch("\n"))>>)

\* /Intestatario\s*:\s*\n\s*([^\n]+)\n?/i
ReIntestatarioNextLine ==
  Cat(<<LitCI(IntestatarioWord), Star(WS), Ch(":"), Star(WS), Ch("\n"), Star(WS),
        Cap(1, Plus(NotNL)), Opt(Ch("\n"))>>)

\* (Dr\.?|Dott\.?ssa|Dott\.?|Sig\.?ra|Sig\.?r|Spett\.le|Gent\.mo|Egr\.?), /i
ReTitle ==
  Alt(<<Cat(<<LitCI(<<"d","r">>), Opt(Ch("."))>>),
        Cat(<<LitCI(<<"d","o","t","t">>), Opt(Ch(".")), LitCI(<<"s","s","a">>)>>),
        Cat(<<LitCI(<<"d","o","t","t">>), Opt(Ch("."))>>),
        Cat(<<LitCI(<<"s","i","g">>), Opt(Ch(".")), LitCI(<<"r","a">>)>>),
        Cat(<<LitCI(<<"s","i","g">>), Opt(Ch(".")), LitCI(<<"r">>)>>),
        Cat(<<LitCI(<<"s","p","e","t","t">>), Ch("."), LitCI(<<"l","e">>)>>),
        Cat(<<LitCI(<<"g","e","n","t">>), Ch("."), LitCI(<<"m","o">>)>>),
        Cat(<<LitCI(<<"e","g","r">>), Opt(Ch("."))>>)>>)

\* [A-Z...][A-Za-z...'.-]+ under the /i flag of the expression it stands in:
\* the flag makes the leading class match a lowercase letter as well
ReNameWordCI == Cat(<<SetCI(Uppers), Plus(SetCI(Letters \cup {"'", ".", "-"}))>>)
TitledMaxMoreWords == 4
\* /\b(title)\s+(Word(?:\s+Word){0,4})/i
ReTitledName ==
  Cat(<<WordB, Cap(1, ReTitle), Plus(WS),
        Cap(2, Cat(<<ReNameWordCI,
                     Rep(Cat(<<Plus(WS), ReNameWordCI>>), 0, TitledMaxMoreWords)>>))>>)

TopChunkLen == 2500

\* heuristic 1..3 of extractIntestatario on the normalized text: the sanitized
\* candidate, or Null when the pattern does not match or the candidate is rejected
\* if (m?.[1]) { const cleaned = cleanupCandidateName(m[1]); ... }
LabelledCandidate(text, m) ==
  IF m.found THEN cleanupCandidateName(Group(text, m, 1)) ELSE Null
\* if (m3?.[1] && m3?.[2]) { const cleaned = cleanupCandidateName(`${m3[1]} ${m3[2]}`); ... }
TitledCandidate(top, m) ==
  IF m.found THEN cleanupCandidateName(Group(top, m, 1) \o <<" ">> \o Group(top, m, 2))
  ELSE Null
TitledIn(top) == TitledCandidate(top, Match(ReTitledName, top))

Heuristic1(text) == LabelledCandidate(text, Match(ReIntestatarioSameLine, text))
Heuristic2(text) == LabelledCandidate(text, Match(ReIntestatarioNextLine, text))
Heuristic3(text) == TitledIn(Slice0(text, TopChunkLen))

\* a cascade that stops at its first candidate, rejected or not
OrElseAbort(cleaned, rest) == cleaned
\* if (cleaned) return cleaned: the first candidate that is not null, else the rest
OrElse(cleaned, rest) == IF cleaned # Null THEN cleaned ELSE rest

\* the cascade over the normalized text
IntestatarioFromText(text) ==
  OrElse(Heuristic1(text), OrElse(Heuristic2(text), Heuristic3(text)))

\* extractIntestatario: a rejected parse is caught and gives null, as does a text
\* that is empty after trim
IntestatarioFromRaw(rawText) ==
  IF Len(Trim(rawText)) = 0 THEN Null
  ELSE IntestatarioFromText(normalizeTextForSearch(rawText))
extractIntestatario(doc) ==
  IF doc.parseFails THEN Null ELSE IntestatarioFromRaw(PdfParseText(doc.pages))

\* --------------------------------------- extraction (Vercel and in-browser)
\* JavaScript's truthiness of a string-or-null
Truthy(x) == x # Null /\ Len(x) > 0

\* String.prototype.replace(a, b) with a one-character string a: the first
\* occurrence only
ReplaceFirst(s, a, b) ==
  LET i == IndexOf(s, <<a>>)
  IN  IF i < 0 THEN s ELSE [s EXCEPT ![i + 1] = b]

\* /Fattura\s*N[°º]?:\s*([0-9]{2}\/[0-9]{5})/i
FatturaYearDigits == 2
FatturaNumberDigits == 5
ReFattura ==
  Cat(<<LitCI(<<"f","a","t","t","u","r","a">>), Star(WS), SetCI({"n"}),
        Opt(Set({Degree, Ordinal})), Ch(":"), Star(WS),
        Cap(1, Cat(<<Rep(Digit, FatturaYearDigits, FatturaYearDigits), Ch("/"),
                     Rep(Digit, FatturaNumberDigits, FatturaNumberDigits)>>))>>)

\* /Intestatario:\s*([^\n\r]+)/i
ReIntestatarioVercel ==
  Cat(<<LitCI(IntestatarioWord \o <<":">>), Star(WS), Cap(1, Plus(NotNLCR))>>)

\* /\bDr\s+[A-Za-zÀ-ÿ.'’\-]+\s+[A-Za-zÀ-ÿ.'’\-]+/
NameChars == Set(Letters \cup {".", "'", "-"})
ReDr == Cat(<<WordB, Lit(<<"D","r">>), Plus(WS), Plus(NameChars), Plus(WS), Plus(NameChars)>>)

\* /Intestatario:\s*([^\n\r]+?)(?:\s{2,}|Allegato|del:|Data|Via|$)/i
ReIntestatarioBrowser ==
  Cat(<<LitCI(IntestatarioWord \o <<":">>), Star(WS), Cap(1, RepLazy(NotNLCR, 1, -1)),
        Alt(<<Rep(WS, 2, -1), LitCI(Allegato), LitCI(<<"d","e","l",":">>),
              LitCI(<<"d","a","t","a">>), LitCI(<<"v","i","a">>), Eos>>)>>)

\* /(\d{2}-\d{4,})/ of the handler's grouping loop and of the browser's
\* extractGroupIdFromFilename, matched as the regular expression it is
GroupIdYearDigits == 2
ReGroupId ==
  Cat(<<Cap(1, Cat(<<Rep(Digit, GroupIdYearDigits, GroupIdYearDigits), Ch("-"),
                     Rep(Digit, GroupIdMinDigits, -1)>>))>>)
\* const m = f.filename.match(...); if (!m) continue; ... m[1]
VercelGroupId(filename) ==
  IF Match(ReGroupId, filename).found
  THEN Group(filename, Match(ReGroupId, filename), 1) ELSE Null
\* return m ? m[1] : undefined
BrowserGroupId(name) ==
  IF Match(ReGroupId, name).found THEN Group(name, Match(ReGroupId, name), 1) ELSE Null

\* the handler's two lookups in the text of the group's first file
\* (text.match(...)?.[1] ?? ...)
\* m?.[1] ?? fallback, and m?.[0] ?? fallback
GroupOr(text, m, fallback) == IF m.found THEN Group(text, m, 1) ELSE fallback
WholeOr(text, m, fallback) == IF m.found THEN Whole(text, m) ELSE fallback
VercelFattura(text, groupId) ==
  GroupOr(text, Match(ReFattura, text), ReplaceFirst(groupId, "-", "/"))
VercelIntestatario(text) ==
  GroupOr(text, Match(ReIntestatarioVercel, text), WholeOr(text, Match(ReDr, text), Documento))

\* `${groupId} - ${safeName(fattura.replace("/", "-"))} - ${safeName(intestatario)}.pdf`
DotPdf == <<".", "p", "d", "f">>
Dash == <<" ", "-", " ">>
\* a filename that is the identifier alone
VercelFilenameBare(groupId, text) == groupId \o DotPdf
VercelFilename(groupId, text) ==
  groupId \o Dash \o safeName(ReplaceFirst(VercelFattura(text, groupId), "/", "-"))
          \o Dash \o safeName(VercelIntestatario(text)) \o DotPdf

\* extractDocInfo, one turn of its loop over the pages: info is what the earlier
\* pages gave
\* a turn that leaves the reference number as it was
StepFatturaSkip(fatturaNo, text, mf) == fatturaNo
\* if (!fatturaNo && mf?.[1]) fatturaNo = mf[1].trim()
StepFattura(fatturaNo, text, mf) ==
  IF ~Truthy(fatturaNo) /\ mf.found THEN Trim(Group(text, mf, 1)) ELSE fatturaNo
\* if (!intestatario && mi?.[1]) intestatario = mi[1].trim()
StepLabelled(intestatario, text, mi) ==
  IF ~Truthy(intestatario) /\ mi.found /\ Truthy(Group(text, mi, 1))
  THEN Trim(Group(text, mi, 1)) ELSE intestatario
\* if (!intestatario) { const mdr = ...; if (mdr?.[0]) intestatario = mdr[0].trim() }
StepDr(intestatario, text, mdr) ==
  IF ~Truthy(intestatario) /\ mdr.found THEN Trim(Whole(text, mdr)) ELSE intestatario

DocInfoStep(info, text) ==
  [intestatario |-> StepDr(StepLabelled(info.intestatario, text,
                                        Match(ReIntestatarioBrowser, text)),
                           text, Match(ReDr, text)),
   fatturaNo    |-> StepFattura(info.fatturaNo, text, Match(ReFattura, text))]

NoDocInfo == [intestatario |-> Null, fatturaNo |-> Null]
\* const pagesToTry = [2, 1].filter((p) => p <= doc.numPages)
PagesToTry(numPages) == SelectSeq(<<2, 1>>, LAMBDA p : p <= numPages)

\* the loop over pagesToTry from its k-th page on: it breaks once both are found
RECURSIVE DocInfoLoop(_, _, _, _)
DocInfoLoop(pages, toTry, k, info) ==
  IF k > Len(toTry) THEN info
  ELSE IF k > 1 /\ Truthy(info.intestatario) /\ Truthy(info.fatturaNo) THEN info
  ELSE DocInfoLoop(pages, toTry, k + 1, DocInfoStep(info, readPageText(pages, toTry[k])))

\* extractDocInfo: a rejected parse is caught and gives nothing
extractDocInfo(doc) ==
  IF doc.parseFails THEN NoDocInfo
  ELSE DocInfoLoop(doc.pages, PagesToTry(Len(doc.pages)), 1, NoDocInfo)

\* the in-browser filename: [groupId, fatturaDash || null, intestatario ?
\* safeFilenamePart(intestatario) : null].filter(Boolean).join(" - ") + ".pdf"
BrowserFilename(groupId, info) ==
  JoinWith(SelectSeq(<<groupId,
                       IF Truthy(info.fatturaNo) THEN ReplaceFirst(info.fatturaNo, "/", "-")
                       ELSE Null,
                       IF Truthy(info.intestatario) THEN safeFilenamePart(info.intestatario)
                       ELSE Null>>,
                     Truthy),
           Dash) \o DotPdf

\* ------------------------------------------------------------ the uploads
\* The documents a request can upload. pages: one sequence of text items per page.
DocPool ==
  <<
     \* 1: the main document of 25-0001, two pages
     [name |-> <<"2","5","-","0","0","0","1",".","p","d","f">>,
      pages |-> <<<<<<"I","n","t","e","s","t","a","t","a","r","i","o",":"," ","M","a","r","i","o"," ","R","o","s","s","i">>, <<"F","a","t","t","u","r","a"," ","N",Degree,":"," ","2","5","/","0","2","0","4","9">>>>,
                <<<<"P","a","g","i","n","a"," ","2">>>>>>,
      parseFails |-> FALSE, loadFails |-> FALSE],
     \* 2: a scanned attachment of 25-0001, its tenth, one page without text
     [name |-> <<"2","5","-","0","0","0","1","_","A","l","l","e","g","a","t","o","1","0",".","p","d","f">>,
      pages |-> <<<<>>>>,
      parseFails |-> FALSE, loadFails |-> FALSE],
     \* 3: a second attachment of 25-0001, naming somebody else
     [name |-> <<"2","5","-","0","0","0","1","_","a","l","l","e","g","a","t","o","2",".","p","d","f">>,
      pages |-> <<<<<<"E","g","r","."," ","D","o","t","t","."," ","L","u","i","g","i"," ","V","e","r","d","i">>>>,
                <<<<"v","i","a"," ","R","o","m","a"," ","1">>>>>>,
      parseFails |-> FALSE, loadFails |-> FALSE],
     \* 4: the main document of 25-0002, the same addressee on the next line,
     \* spelt with a character no filename may hold
     [name |-> <<"2","5","-","0","0","0","2",".","p","d","f">>,
      pages |-> <<<<<<"I","n","t","e","s","t","a","t","a","r","i","o",":">>, <<"M","a","r","i","o",":"," ","R","o","s","s","i">>>>>>,
      parseFails |-> FALSE, loadFails |-> FALSE],
     \* 5: an attachment of 25-0002 without pages
     [name |-> <<"2","5","-","0","0","0","2"," ","A","L","L","E","G","A","T","O",".","p","d","f">>,
      pages |-> <<>>,
      parseFails |-> FALSE, loadFails |-> FALSE],
     \* 6: a document without identifier
     [name |-> <<"n","o","t","a",".","p","d","f">>,
      pages |-> <<<<<<"I","n","t","e","s","t","a","t","a","r","i","o",":"," ","A","n","n","a"," ","B","i","a","n","c","h","i">>>>>>,
      parseFails |-> FALSE, loadFails |-> FALSE],
     \* 7: a second document of 25-0001 without the marker; the text parser rejects it
     [name |-> <<"2","5","-","0","0","0","1","_","b",".","p","d","f">>,
      pages |-> <<<<<<"I","n","t","e","s","t","a","t","a","r","i","o",":"," ","2","5","/","0","2","0","5","0">>>>>>,
      parseFails |-> TRUE, loadFails |-> FALSE],
     \* 8: another upload named as 4, without pages
     [name |-> <<"2","5","-","0","0","0","2",".","p","d","f">>,
      pages |-> <<>>,
      parseFails |-> FALSE, loadFails |-> FALSE],
     \* 9: a corrupt attachment of 25-0002: neither parser reads it
     [name |-> <<"2","5","-","0","0","0","2","_","a","l","l","e","g","a","t","o",".","p","d","f">>,
      pages |-> <<<<<<"x">>>>>>,
      parseFails |-> TRUE, loadFails |-> TRUE],
     \* 10: a scanned attachment without identifier
     [name |-> <<"A","l","l","e","g","a","t","o",".","p","d","f">>,
      pages |-> <<<<>>>>,
      parseFails |-> FALSE, loadFails |-> FALSE]
  >>
DocIds == 1..Len(DocPool)

\* pdf-lib: the pages of the upload at position pos, as copyPages gives them
PagesOf(pos, doc) == [k \in 1..Len(doc.pages) |-> <<pos, k>>]
\* pdf-lib's save(): addDefaultPage is true unless the caller says otherwise, and
\* none of the callers does: a document without pages is saved with one blank page
BlankPage == <<0, 0>>
Save(pages) == IF Len(pages) = 0 THEN <<BlankPage>> ELSE pages

\* ------------------------------------------------------------- ordering
\* String.prototype.localeCompare of two lowercased names, by the root collation
\* the runtime's ICU applies: blanks, then punctuation ("_" before "-" before "."),
\* then symbols, then digits, then letters; a proper prefix comes first.
CollationOrder ==
  <<"\t", "\n", "\r", " ", "_", "-", ",", ":", "?", ".", "'", "\"", "*", "/", "\\",
    Degree, "<", ">", "|",
    "0", "1", "2", "3", "4", "5", "6", "7", "8", "9",
    "a", Ordinal, "b", "c", "d", "e", "f", "g", "h", "i", "j", "k", "l", "m",
    "n", "o", "p", "q", "r", "s", "t", "u", "v", "w", "x", "y", "z">>
CollationRank(c) == CHOOSE i \in 1..Len(CollationOrder) : CollationOrder[i] = Lower(c)
\* negative, zero or positive, as localeCompare
localeCompare(a, b) ==
  LET n == IF Len(a) < Len(b) THEN Len(a) ELSE Len(b)
      diffs == {i \in 1..n : CollationRank(a[i]) # CollationRank(b[i])}
  IN  IF diffs = {} THEN Len(a) - Len(b)
      ELSE LET i == CHOOSE x \in diffs : \A y \in diffs : x <= y
           IN  CollationRank(a[i]) - CollationRank(b[i])

\* Array.prototype.sort with a consistent comparator: stable, so an element comes
\* before another when it compares lower, or equal and earlier
\* (cmp[j][i] is the comparator's result for the j-th and the i-th element)
StableSort(seq, cmp) ==
  LET n == Len(seq)
      rank(i) == Cardinality({j \in 1..n : \/ cmp[j][i] < 0
                                           \/ (cmp[j][i] = 0 /\ j < i)}) + 1
  IN  [k \in 1..n |-> seq[CHOOSE i \in 1..n : rank(i) = k]]

\* ------------------------------------------------------------------ state
VARIABLES
  variant,   \* which implementation serves the request: "express", "vercel", "browser"
  pc,        \* "recv": the upload is being received; "loop": the groups are being
             \* processed; "done": the request is answered
  files,     \* the upload, in order: indices into DocPool
  tmp,       \* the positions whose temporary file (multer's uploads/) exists
  groups,    \* the groups, in the order of Object.keys / Object.entries
  gi,        \* the index of the group the loop is at
  zip,       \* the archive: entries [name, pages], one per name
  outputs,   \* every addFile / zip.file call so far: [id, name, pages, members, namedFrom]
  count,     \* processedCount / merged / mergedCount
  response,  \* [kind, status, body]; kind "none" until the request is answered
  sanRaw,    \* the raw candidate handed to cleanupCandidateName
  sanOut,    \* its result, SanPending before the call
  extDoc,    \* the document handed to the three metadata extractions
  extOut,    \* what each of them gave, ExtPending before the calls
  nmQueue,   \* the base names of the groups still to be named, in loop order
  nmNames,   \* base and final filename of the groups named so far
  idName,    \* the filename handed to the identifier extractors
  idOut,     \* what each of them gave, IdPending before the calls
  reqs,      \* the requests a server has in progress, each with its own archive
  uiFiles,   \* the page's files state: [doc, paired] per listed file
  isProcessing, \* the page's isProcessing state
  error,     \* the page's error state: a message, or NoError for null
  isSuccess, \* the page's isSuccess state
  inFlight,  \* the calls of processFiles that have not settled: the list each
             \* submitted and what its merge comes to
  formData   \* the list the last call of processFiles submitted

hvars == <<variant, pc, files, tmp, groups, gi, zip, outputs, count, response>>
cvars == <<reqs>>
uvars == <<uiFiles, isProcessing, error, isSuccess, inFlight, formData>>
svars == <<sanRaw, sanOut, extDoc, extOut, nmQueue, nmNames, idName, idOut, cvars, uvars>>
vars == <<variant, pc, files, tmp, groups, gi, zip, outputs, count, response,
          sanRaw, sanOut, extDoc, extOut, nmQueue, nmNames, idName, idOut, reqs,
          uiFiles, isProcessing, error, isSuccess, inFlight, formData>>

Variants == {"express", "vercel", "browser"}
NoResponse == [kind |-> "none", status |-> 0, body |-> ""]
SanPending == <<"<pending>">>
ExtPending == [done |-> FALSE, express |-> Null,
               vercel |-> [fattura |-> Null, intestatario |-> Null],
               browser |-> [intestatario |-> Null, fatturaNo |-> Null]]
NoDoc == [name |-> <<>>, pages |-> <<>>, parseFails |-> FALSE, loadFails |-> FALSE]
SanIdle == sanRaw = <<>> /\ sanOut = SanPending
ExtIdle == extDoc = NoDoc /\ extOut = ExtPending
NmIdle == nmQueue = <<>> /\ nmNames = <<>>
IdPending == [done |-> FALSE, express |-> Null, vercel |-> Null, browser |-> Null]
IdIdle == idName = <<>> /\ idOut = IdPending
ConcIdle == reqs = <<>>
NoError == "<null>"
\* useState([]), useState(false), useState(null), useState(false)
UiIdle ==
  /\ uiFiles = <<>>
  /\ isProcessing = FALSE
  /\ error = NoError
  /\ isSuccess = FALSE
  /\ inFlight = <<>>
  /\ formData = <<>>

DocAt(pos) == DocPool[files[pos]]
NameAt(pos) == DocAt(pos).name

\* what each extraction gives for each document of the pool
ExpressNameOf == [d \in DocIds |-> extractIntestatario(DocPool[d])]
BrowserInfoOf == [d \in DocIds |-> extractDocInfo(DocPool[d])]
VercelTextOf == [d \in DocIds |-> PdfParseText(DocPool[d].pages)]

\* adm-zip's addFile and JSZip's file(): an entry of that name is replaced, else
\* the entry is added
ZipPut(z, name, pages) ==
  IF \E k \in 1..Len(z) : z[k].name = name
  THEN [k \in 1..Len(z) |-> IF z[k].name = name THEN [name |-> name, pages |-> pages] ELSE z[k]]
  ELSE Append(z, [name |-> name, pages |-> pages])
\* zip.getEntry(name) is not null
HasEntry(z, name) == \E k \in 1..Len(z) : z[k].name = name

\* the pages of the uploads at the positions ms, in that order
RECURSIVE ConcatPages(_, _)
ConcatPages(fs, ms) ==
  IF ms = <<>> THEN <<>>
  ELSE PagesOf(ms[1], DocPool[fs[ms[1]]]) \o ConcatPages(fs, Tail(ms))

\* --------------------------------------------------------- Express: grouping
\* one turn of the grouping loop: groups[id].allegato = f or groups[id].main = f
ExpressAdd(gs, pos, name) ==
  LET id == extractGroupIdFromFilename(name)
  IN  IF id = Null THEN gs
      ELSE LET gs1 == IF \E k \in 1..Len(gs) : gs[k].id = id THEN gs
                      ELSE Append(gs, [id |-> id, main |-> 0, allegato |-> 0])
               k == CHOOSE x \in 1..Len(gs1) : gs1[x].id = id
           IN  IF isAllegato(name) THEN [gs1 EXCEPT ![k].allegato = pos]
               ELSE [gs1 EXCEPT ![k].main = pos]

RECURSIVE ExpressGroupsUpTo(_, _)
ExpressGroupsUpTo(fs, n) ==
  IF n = 0 THEN <<>>
  ELSE ExpressAdd(ExpressGroupsUpTo(fs, n - 1), n, DocPool[fs[n]].name)
ExpressGroups(fs) == ExpressGroupsUpTo(fs, Len(fs))

\* the addressee taken from the main document first
FirstNamedMainFirst(fromAllegato, allegato, fromMain, main) ==
  IF fromMain # Null THEN [name |-> fromMain, src |-> main]
  ELSE IF fromAllegato # Null THEN [name |-> fromAllegato, src |-> allegato]
  ELSE [name |-> Null, src |-> 0]
\* the addressee: from the attachment first, from the main document when the
\* attachment gives none; src is the position of the document that gave it
FirstNamed(fromAllegato, allegato, fromMain, main) ==
  IF fromAllegato # Null THEN [name |-> fromAllegato, src |-> allegato]
  ELSE IF fromMain # Null THEN [name |-> fromMain, src |-> main]
  ELSE [name |-> Null, src |-> 0]
ExpressIntestatario(fs, g) ==
  FirstNamed(ExpressNameOf[fs[g.allegato]], g.allegato, ExpressNameOf[fs[g.main]], g.main)

\* a base that is the identifier whatever was extracted
ExpressBaseIdOnly(id, intestatario) == id
\* let finalBase = intestatario ? safePdfFileName(intestatario) : id
ExpressBase(id, intestatario) ==
  IF Truthy(intestatario) THEN safePdfFileName(intestatario) ELSE id

\* the collision loop: `${finalBase}_${suffix}.pdf` from suffix on, until no entry
\* of the archive has the name
FirstSuffix == 2
\* a single try of the suffix, taken or not
NextFreeOnce(z, base, suffix) == base \o <<"_">> \o Decimal(suffix) \o DotPdf
RECURSIVE NextFree(_, _, _)
NextFree(z, base, suffix) ==
  LET cand == base \o <<"_">> \o Decimal(suffix) \o DotPdf
  IN  IF HasEntry(z, cand) THEN NextFree(z, base, suffix + 1) ELSE cand
\* the name without the collision loop
ExpressFileNameNoLoop(z, base) == base \o DotPdf
ExpressFileName(z, base) ==
  IF HasEntry(z, base \o DotPdf) THEN NextFree(z, base, FirstSuffix) ELSE base \o DotPdf

\* ---------------------------------------------- Vercel and in-browser: grouping
\* groups[m[1]] ??= []; groups[m[1]].push(f)  /  (acc[f.groupId] ||= []).push(f)
\* the grouping turn without its test of the identifier
MemberAddAnyId(gs, pos, name) ==
  LET gs1 == IF \E k \in 1..Len(gs) : gs[k].id = extractGroupIdFromFilename(name) THEN gs
             ELSE Append(gs, [id |-> extractGroupIdFromFilename(name), members |-> <<>>])
      k == CHOOSE x \in 1..Len(gs1) : gs1[x].id = extractGroupIdFromFilename(name)
  IN  [gs1 EXCEPT ![k].members = Append(@, pos)]
MemberAdd(gs, pos, name) ==
  LET id == extractGroupIdFromFilename(name)
  IN  IF id = Null THEN gs
      ELSE LET gs1 == IF \E k \in 1..Len(gs) : gs[k].id = id THEN gs
                      ELSE Append(gs, [id |-> id, members |-> <<>>])
               k == CHOOSE x \in 1..Len(gs1) : gs1[x].id = id
           IN  [gs1 EXCEPT ![k].members = Append(@, pos)]

RECURSIVE MemberGroupsUpTo(_, _)
MemberGroupsUpTo(fs, n) ==
  IF n = 0 THEN <<>>
  ELSE MemberAdd(MemberGroupsUpTo(fs, n - 1), n, DocPool[fs[n]].name)
MemberGroups(fs) == MemberGroupsUpTo(fs, Len(fs))

MinGroupFiles == 2
\* a skip test that lets every group through
TooFewNever(members) == Len(members) < 1
\* if (groupFiles.length < 2) continue
TooFew(members) == Len(members) < MinGroupFiles
\* validGroups.valid: Object.entries(groups).filter(([, arr]) => arr.length >= 2)
ValidGroups(fs) == SelectSeq(MemberGroups(fs), LAMBDA g : Len(g.members) >= MinGroupFiles)

\* the comparator of the handler's groupFiles.sort, on two filenames
VercelCmp(a, b) ==
  LET A == ToLower(a)
      B == ToLower(b)
  IN  IF Includes(A, Allegato) /\ ~Includes(B, Allegato) THEN 1
      ELSE IF ~Includes(A, Allegato) /\ Includes(B, Allegato) THEN -1
      ELSE localeCompare(A, B)

\* Number((an.match(/allegato\s*(\d+)/i) || [])[1] || 0)
ReAllegatoNum == Cat(<<LitCI(Allegato), Star(WS), Cap(1, Plus(Digit))>>)
DigitValue(c) == CHOOSE v \in 0..9 : DigitSeq[v + 1] = c
NumberOf(ds) ==
  LET n == Len(ds)
      RECURSIVE Sum(_)
      Sum(k) == IF k = 0 THEN 0 ELSE 10 * Sum(k - 1) + DigitValue(ds[k])
  IN  Sum(n)
AllegatoNum(an) ==
  LET m == Match(ReAllegatoNum, an)
  IN  IF m.found THEN NumberOf(Group(an, m, 1)) ELSE 0

\* the comparator of orderGroupFiles, on two filenames
BrowserCmp(a, b) ==
  LET an == ToLower(a)
      bn == ToLower(b)
      aIsAll == Includes(an, Allegato)
      bIsAll == Includes(bn, Allegato)
  IN  IF aIsAll # bIsAll THEN (IF aIsAll THEN 1 ELSE -1)
      ELSE IF AllegatoNum(an) # AllegatoNum(bn) THEN AllegatoNum(an) - AllegatoNum(bn)
      ELSE localeCompare(an, bn)

\* the group's files as the Vercel handler sorts them, as positions of the upload
\* the comparator's results for the names of the pool, computed once
VercelCmpOf == [a \in DocIds |-> [b \in DocIds |-> VercelCmp(DocPool[a].name, DocPool[b].name)]]

VercelOrder(fs, ms) ==
  StableSort(ms, [i \in 1..Len(ms) |-> [j \in 1..Len(ms) |->
                    VercelCmpOf[fs[ms[i]]][fs[ms[j]]]]])
\* orderGroupFiles
BrowserCmpOf == [a \in DocIds |-> [b \in DocIds |-> BrowserCmp(DocPool[a].name, DocPool[b].name)]]

orderGroupFiles(fs, ms) ==
  StableSort(ms, [i \in 1..Len(ms) |-> [j \in 1..Len(ms) |->
                    BrowserCmpOf[fs[ms[i]]][fs[ms[j]]]]])

\* the archive entry's name of a group whose first file is document d (the group's
\* identifier is the one of d's name), computed once for each document of the pool
VercelFilenameOf ==
  [d \in DocIds |-> VercelFilename(extractGroupIdFromFilename(DocPool[d].name), VercelTextOf[d])]
BrowserFilenameOf ==
  [d \in DocIds |-> BrowserFilename(extractGroupIdFromFilename(DocPool[d].name), BrowserInfoOf[d])]

\* ---------------------------------------------------------------- actions
\* a file of the multipart upload arrives (multer stores it under uploads/, busboy
\* and the browser keep it in memory)
Receive(d) ==
  /\ pc = "recv"
  /\ Len(files) < MaxFiles
  /\ \A k \in 1..Len(files) : files[k] # d
  /\ files' = Append(files, d)
  /\ tmp' = IF variant = "express" THEN tmp \cup {Len(files) + 1} ELSE tmp
  /\ UNCHANGED <<variant, pc, groups, gi, zip, outputs, count, response, svars>>

Answer(kind, status, body) ==
  /\ response' = [kind |-> kind, status |-> status, body |-> body]
  /\ pc' = "done"

\* ---- Express: app.post("/api/merge-pdfs")
ExpressNoFiles ==
  /\ variant = "express" /\ pc = "recv" /\ files = <<>>
  /\ Answer("rejected", 400, "Nessun file caricato.")
  /\ UNCHANGED <<variant, files, tmp, groups, gi, zip, outputs, count, svars>>

ExpressGroup ==
  /\ variant = "express" /\ pc = "recv" /\ files # <<>>
  /\ groups' = ExpressGroups(files)
  /\ gi' = 1
  /\ pc' = "loop"
  /\ UNCHANGED <<variant, files, tmp, zip, outputs, count, response, svars>>

ExpressAtGroup == variant = "express" /\ pc = "loop" /\ gi <= Len(groups)
ExpressComplete(g) == g.main # 0 /\ g.allegato # 0

\* if (!main || !allegato) continue
ExpressSkip ==
  /\ ExpressAtGroup
  /\ ~ExpressComplete(groups[gi])
  /\ gi' = gi + 1
  /\ UNCHANGED <<variant, pc, files, tmp, groups, zip, outputs, count, response, svars>>

\* the merged document enters the archive under its name; outputs records what it
\* was made of
Emit(id, name, pages, members, namedFrom) ==
  /\ zip' = ZipPut(zip, name, pages)
  /\ outputs' = Append(outputs, [id |-> id, name |-> name, pages |-> pages,
                                 members |-> members, namedFrom |-> namedFrom])

ExpressEmit(g, who) ==
  Emit(g.id, ExpressFileName(zip, ExpressBase(g.id, who.name)),
       Save(PagesOf(g.main, DocAt(g.main)) \o PagesOf(g.allegato, DocAt(g.allegato))),
       <<g.main, g.allegato>>, who.src)

\* one turn of the loop that reaches zip.addFile
ExpressMerge ==
  /\ ExpressAtGroup
  /\ ExpressComplete(groups[gi])
  /\ ~DocAt(groups[gi].main).loadFails
  /\ ~DocAt(groups[gi].allegato).loadFails
  /\ ExpressEmit(groups[gi], ExpressIntestatario(files, groups[gi]))
  /\ count' = count + 1
  /\ gi' = gi + 1
  /\ UNCHANGED <<variant, pc, files, tmp, groups, response, svars>>

\* a throw that would only drop the group
ExpressThrowDropsGroup ==
  /\ variant = "express" /\ pc = "loop" /\ gi <= Len(groups)
  /\ groups[gi].main # 0 /\ groups[gi].allegato # 0
  /\ DocAt(groups[gi].main).loadFails \/ DocAt(groups[gi].allegato).loadFails
  /\ gi' = gi + 1
  /\ UNCHANGED <<variant, pc, files, tmp, groups, zip, outputs, count, response, svars>>

\* PDFDocument.load throws: the catch removes the temporary files and answers 500
ExpressThrow ==
  /\ ExpressAtGroup
  /\ ExpressComplete(groups[gi])
  /\ DocAt(groups[gi].main).loadFails \/ DocAt(groups[gi].allegato).loadFails
  /\ tmp' = {}
  /\ Answer("failed", 500, "Errore interno durante l'unione dei file.")
  /\ UNCHANGED <<variant, files, groups, gi, zip, outputs, count, svars>>

\* if (processedCount === 0) return res.status(400)...: the return comes before
\* the cleanup
ExpressEmpty ==
  /\ variant = "express" /\ pc = "loop" /\ gi > Len(groups)
  /\ count = 0
  /\ Answer("rejected", 400, "Nessuna coppia valida trovata (manca main o allegato).")
  /\ UNCHANGED <<variant, files, tmp, groups, gi, zip, outputs, count, svars>>

\* the archive sent without the test of processedCount
ExpressSendUnchecked ==
  /\ variant = "express" /\ pc = "loop" /\ gi > Len(groups)
  /\ tmp' = {}
  /\ Answer("archive", 200, "pdf_merger_risultati.zip")
  /\ UNCHANGED <<variant, files, groups, gi, zip, outputs, count, svars>>

ExpressSend ==
  /\ variant = "express" /\ pc = "loop" /\ gi > Len(groups)
  /\ count # 0
  /\ tmp' = {}
  /\ Answer("archive", 200, "pdf_merger_risultati.zip")
  /\ UNCHANGED <<variant, files, groups, gi, zip, outputs, count, svars>>

\* ---- Vercel: handler
\* a request whose method is not POST; its body is not read
VercelNotPost ==
  /\ variant = "vercel" /\ pc = "recv" /\ files = <<>>
  /\ Answer("rejected", 405, "Method not allowed")
  /\ UNCHANGED <<variant, files, tmp, groups, gi, zip, outputs, count, svars>>

VercelTooFew ==
  /\ variant = "vercel" /\ pc = "recv" /\ Len(files) < MinGroupFiles
  /\ Answer("rejected", 400, "Servono almeno due PDF")
  /\ UNCHANGED <<variant, files, tmp, groups, gi, zip, outputs, count, svars>>

VercelGroup ==
  /\ variant = "vercel" /\ pc = "recv" /\ Len(files) >= MinGroupFiles
  /\ groups' = MemberGroups(files)
  /\ gi' = 1
  /\ pc' = "loop"
  /\ UNCHANGED <<variant, files, tmp, zip, outputs, count, response, svars>>

VercelAtGroup == variant = "vercel" /\ pc = "loop" /\ gi <= Len(groups)

VercelSkip ==
  /\ VercelAtGroup
  /\ TooFew(groups[gi].members)
  /\ gi' = gi + 1
  /\ UNCHANGED <<variant, pc, files, tmp, groups, zip, outputs, count, response, svars>>

\* pdfParse of the first file or PDFDocument.load of any file throws
VercelThrows(ordered) ==
  \/ DocAt(ordered[1]).parseFails
  \/ \E k \in 1..Len(ordered) : DocAt(ordered[k]).loadFails

\* the turn of the loop from the sorted group on (groupFiles.sort sorts in place)
VercelMerged(ordered) ==
  /\ ~VercelThrows(ordered)
  /\ groups' = [groups EXCEPT ![gi].members = ordered]
  /\ Emit(groups[gi].id, VercelFilenameOf[files[ordered[1]]],
          Save(ConcatPages(files, ordered)), ordered, ordered[1])

VercelMerge ==
  /\ VercelAtGroup
  /\ ~TooFew(groups[gi].members)
  /\ VercelMerged(VercelOrder(files, groups[gi].members))
  /\ count' = count + 1
  /\ gi' = gi + 1
  /\ UNCHANGED <<variant, pc, files, tmp, response, svars>>

\* the handler's catch answers 500
VercelThrown(ordered) ==
  /\ VercelThrows(ordered)
  /\ groups' = [groups EXCEPT ![gi].members = ordered]

VercelThrow ==
  /\ VercelAtGroup
  /\ ~TooFew(groups[gi].members)
  /\ VercelThrown(VercelOrder(files, groups[gi].members))
  /\ Answer("failed", 500, "Errore durante il merge PDF")
  /\ UNCHANGED <<variant, files, tmp, gi, zip, outputs, count, svars>>

VercelEmpty ==
  /\ variant = "vercel" /\ pc = "loop" /\ gi > Len(groups)
  /\ count = 0
  /\ Answer("rejected", 400, "Nessuna coppia valida trovata")
  /\ UNCHANGED <<variant, files, tmp, groups, gi, zip, outputs, count, svars>>

VercelSend ==
  /\ variant = "vercel" /\ pc = "loop" /\ gi > Len(groups)
  /\ count # 0
  /\ Answer("archive", 200, "pdf_uniti.zip")
  /\ UNCHANGED <<variant, files, tmp, groups, gi, zip, outputs, count, svars>>

\* ---- in the browser: processFiles of the variant that merges locally
BrowserNoFiles ==
  /\ variant = "browser" /\ pc = "recv" /\ files = <<>>
  /\ Answer("rejected", 0, "Carica almeno 2 PDF per iniziare.")
  /\ UNCHANGED <<variant, files, tmp, groups, gi, zip, outputs, count, svars>>

BrowserNoValid ==
  /\ variant = "browser" /\ pc = "recv" /\ files # <<>>
  /\ ValidGroups(files) = <<>>
  /\ Answer("rejected", 0, "Nessuna coppia valida trovata. Carica almeno 2 PDF con lo stesso ID (es. 25-0249.pdf e 25-0249_Allegato1.pdf).")
  /\ UNCHANGED <<variant, files, tmp, groups, gi, zip, outputs, count, svars>>

BrowserStart ==
  /\ variant = "browser" /\ pc = "recv" /\ files # <<>>
  /\ ValidGroups(files) # <<>>
  /\ groups' = ValidGroups(files)
  /\ gi' = 1
  /\ pc' = "loop"
  /\ UNCHANGED <<variant, files, tmp, zip, outputs, count, response, svars>>

BrowserAtGroup == variant = "browser" /\ pc = "loop" /\ gi <= Len(groups)
BrowserThrows(ordered) == \E k \in 1..Len(ordered) : DocAt(ordered[k]).loadFails

BrowserMerged(ordered) ==
  /\ ~BrowserThrows(ordered)
  /\ Emit(groups[gi].id, BrowserFilenameOf[files[ordered[1]]],
          Save(ConcatPages(files, ordered)), ordered, ordered[1])

BrowserMerge ==
  /\ BrowserAtGroup
  /\ BrowserMerged(orderGroupFiles(files, groups[gi].members))
  /\ count' = count + 1
  /\ gi' = gi + 1
  /\ UNCHANGED <<variant, pc, files, tmp, groups, response, svars>>

\* catch (err) { setError(err?.message || "Errore durante il merge") }: the
\* error shown is the message of what PDFDocument.load threw
BrowserThrow ==
  /\ BrowserAtGroup
  /\ BrowserThrows(orderGroupFiles(files, groups[gi].members))
  /\ Answer("failed", 0, "<err.message>")
  /\ UNCHANGED <<variant, files, tmp, groups, gi, zip, outputs, count, svars>>

\* after the loop: mergedCount === 0 throws into the same catch, else the archive
\* is offered for download and isSuccess is set
BrowserSend ==
  /\ variant = "browser" /\ pc = "loop" /\ gi > Len(groups)
  /\ IF count = 0
     THEN Answer("failed", 0, "Serve almeno una coppia di PDF con lo stesso ID nel nome file.")
     ELSE Answer("archive", 0, "pdf_uniti.zip")
  /\ UNCHANGED <<variant, files, tmp, groups, gi, zip, outputs, count, svars>>

\* ---------------------------------------------------------- specifications
HandlerInit ==
  /\ pc = "recv"
  /\ files = <<>>
  /\ tmp = {}
  /\ groups = <<>>
  /\ gi = 1
  /\ zip = <<>>
  /\ outputs = <<>>
  /\ count = 0
  /\ response = NoResponse

Init ==
  /\ variant \in Variants
  /\ HandlerInit
  /\ SanIdle
  /\ ExtIdle
  /\ NmIdle
  /\ IdIdle
  /\ ConcIdle
  /\ UiIdle

Next ==
  \/ \E d \in DocIds : Receive(d)
  \/ ExpressNoFiles \/ ExpressGroup \/ ExpressSkip \/ ExpressMerge \/ ExpressThrow
  \/ ExpressEmpty \/ ExpressSend
  \/ VercelNotPost \/ VercelTooFew \/ VercelGroup \/ VercelSkip \/ VercelMerge
  \/ VercelThrow \/ VercelEmpty \/ VercelSend
  \/ BrowserNoFiles \/ BrowserNoValid \/ BrowserStart \/ BrowserMerge \/ BrowserThrow
  \/ BrowserSend

Spec == Init /\ [][Next]_vars

\* ------------------------------------------------- the candidate sanitizer alone
\* The raw candidates: up to MaxRawTokens pieces, each a word, a stop word, a number,
\* one of the characters the sanitizer treats specially, or letters whose lower
\* case is longer than they are.
SanTokens ==
  { <<"U","g","o">>, <<"R","e">>, <<" ">>, <<"\t">>, <<"v","i","a">>, <<"D","a","t","a">>,
    <<"1","2">>, <<"/">>, <<".">>, <<"-">>, <<"*">>, <<":">>, <<DottedI, DottedI>> }
RECURSIVE Flatten(_)
Flatten(ts) == IF ts = <<>> THEN <<>> ELSE ts[1] \o Flatten(Tail(ts))
RawCandidates ==
  UNION {{Flatten(ts) : ts \in [1..n -> SanTokens]} : n \in 0..MaxRawTokens}

SanInit ==
  /\ sanRaw \in RawCandidates
  /\ sanOut = SanPending
  /\ variant = "express"
  /\ HandlerInit
  /\ ExtIdle
  /\ NmIdle
  /\ IdIdle
  /\ ConcIdle
  /\ UiIdle

\* const cleaned = cleanupCandidateName(raw)
SanClean ==
  /\ sanOut = SanPending
  /\ sanOut' = cleanupCandidateName(sanRaw)
  /\ UNCHANGED <<sanRaw, extDoc, extOut, nmQueue, nmNames, idName, idOut, hvars, cvars, uvars>>

SanNext == SanClean

SpecSan == SanInit /\ [][SanNext]_vars

\* ------------------------------------------------ the metadata extractions alone
\* The documents: text items taken from a few lines of an invoice, on one page or
\* on two; the last of the items is the blank item a PDF's text content may hold.
MaxTextLines == 3
ExtName == <<"2","5","-","0","0","0","1",".","p","d","f">>
ExtGroupId == extractGroupIdFromFilename(ExtName)
ExtLines ==
  { <<"I","n","t","e","s","t","a","t","a","r","i","o",":"," ","M","a","r","i","o"," ","R","o","s","s","i">>,
    <<"I","n","t","e","s","t","a","t","a","r","i","o",":"," ","2","5","/","0","2","0","5","0">>,
    <<"I","n","t","e","s","t","a","t","a","r","i","o",":">>,
    <<"M","a","r","i","o"," ","R","o","s","s","i">>,
    <<"E","g","r","."," ","D","o","t","t","."," ","L","u","i","g","i"," ","V","e","r","d","i">>,
    <<"F","a","t","t","u","r","a"," ","N",Degree,":"," ","2","5","/","0","2","0","4","9">>,
    <<"F","a","t","t","u","r","a"," ","N",":"," ","2","5","/","0","2","0","5","0">>,
    <<"v","i","a"," ","R","o","m","a"," ","1">>,
    <<"D","o","t","t","."," ","m","a","r","i","o"," ","r","o","s","s","i">>,
    <<" ">> }
LinesUpTo(n) == UNION {[1..k -> ExtLines] : k \in 0..n}
ExtDocs ==
  {[name |-> ExtName, pages |-> <<p>>, parseFails |-> FALSE, loadFails |-> FALSE] :
     p \in LinesUpTo(MaxTextLines)}
  \cup
  {[name |-> ExtName, pages |-> <<p[1], p[2]>>, parseFails |-> FALSE, loadFails |-> FALSE] :
     p \in LinesUpTo(MaxTextLines - 1) \X LinesUpTo(1)}

ExtInit ==
  /\ extDoc \in ExtDocs
  /\ extOut = ExtPending
  /\ variant = "express"
  /\ HandlerInit
  /\ SanIdle
  /\ NmIdle
  /\ IdIdle
  /\ ConcIdle
  /\ UiIdle

\* extractIntestatario(buffer), the handler's lookups in pdfParse's text, and
\* extractDocInfo(file), each on the same document
ExtRun ==
  /\ extOut = ExtPending
  /\ extOut' = [done    |-> TRUE,
                express |-> extractIntestatario(extDoc),
                vercel  |-> [fattura |-> VercelFattura(PdfParseText(extDoc.pages), ExtGroupId),
                             intestatario |-> VercelIntestatario(PdfParseText(extDoc.pages))],
                browser |-> extractDocInfo(extDoc)]
  /\ UNCHANGED <<extDoc, sanRaw, sanOut, nmQueue, nmNames, idName, idOut, hvars, cvars, uvars>>

ExtNext == ExtRun

SpecExt == ExtInit /\ [][ExtNext]_vars

\* ------------------------------------------------- the naming of a batch alone
\* The base names of the groups of one request, as the Express loop meets them:
\* an addressee, the same with a suffix of its own, an identifier.
MaxBatch == 4
NmBases ==
  { <<"M","a","r","i","o"," ","R","o","s","s","i">>,
    <<"M","a","r","i","o"," ","R","o","s","s","i","_","2">>,
    <<"2","5","-","0","0","0","1">> }

NmInit ==
  /\ nmQueue \in UNION {[1..n -> NmBases] : n \in 0..MaxBatch}
  /\ nmNames = <<>>
  /\ variant = "express"
  /\ HandlerInit
  /\ SanIdle
  /\ ExtIdle
  /\ IdIdle
  /\ ConcIdle
  /\ UiIdle

\* let finalFileName = ...; while (zip.getEntry(finalFileName)) ...; zip.addFile(...)
NmNameOne ==
  /\ nmQueue # <<>>
  /\ nmNames' = Append(nmNames, [base |-> Head(nmQueue),
                                 name |-> ExpressFileName(zip, Head(nmQueue))])
  /\ zip' = ZipPut(zip, ExpressFileName(zip, Head(nmQueue)), <<>>)
  /\ nmQueue' = Tail(nmQueue)
  /\ UNCHANGED <<variant, pc, files, tmp, groups, gi, outputs, count, response,
                 sanRaw, sanOut, extDoc, extOut, idName, idOut, cvars, uvars>>

NmNext == NmNameOne

SpecNames == NmInit /\ [][NmNext]_vars

\* ------------------------------------------------ the identifier extractors alone
\* The filenames: up to MaxNameTokens pieces, each a digit, a hyphen, a letter or
\* a whole identifier.
MaxNameTokens == 5
IdTokens == { <<"2">>, <<"5">>, <<"0">>, <<"-">>, <<"x">>, <<"2","5","-","0","0","0","1">> }
IdNames == UNION {{Flatten(ts) : ts \in [1..n -> IdTokens]} : n \in 0..MaxNameTokens}

IdInit ==
  /\ idName \in IdNames
  /\ idOut = IdPending
  /\ variant = "express"
  /\ HandlerInit
  /\ SanIdle
  /\ ExtIdle
  /\ NmIdle
  /\ ConcIdle
  /\ UiIdle

\* the same filename in the Express server, in the Vercel handler and in the browser
IdExtract ==
  /\ ~idOut.done
  /\ idOut' = [done    |-> TRUE,
               express |-> extractGroupIdFromFilename(idName),
               vercel  |-> VercelGroupId(idName),
               browser |-> BrowserGroupId(idName)]
  /\ UNCHANGED <<idName, sanRaw, sanOut, extDoc, extOut, nmQueue, nmNames, hvars, cvars, uvars>>

IdNext == IdExtract

SpecId == IdInit /\ [][IdNext]_vars

\* ------------------------------------------- requests served at the same time
\* A server runs its handler once per request; the runs interleave where the
\* handler awaits. Each run has the archive it created (const zip = new AdmZip(),
\* const zip = new JSZip()) and the base names of the groups it still has to
\* merge, in loop order.
MaxRequests == 2
MaxReqGroups == 2
Requests == 1..MaxRequests
ReqQueues == UNION {[1..n -> NmBases] : n \in 0..MaxReqGroups}
NewRequest(queue) == [pc |-> "extract", queue |-> queue, zip |-> <<>>, name |-> <<>>]

ConcInit ==
  /\ variant \in {"express", "vercel"}
  /\ reqs \in {[r \in Requests |-> NewRequest(q[r])] : q \in [Requests -> ReqQueues]}
  /\ HandlerInit
  /\ SanIdle
  /\ ExtIdle
  /\ NmIdle
  /\ IdIdle
  /\ UiIdle

\* an insertion into every archive there is, as into one that all runs share
SharedArchive(rs, r, name) ==
  [q \in DOMAIN rs |-> [rs[q] EXCEPT !.zip = ZipPut(rs[q].zip, name, <<>>)]]
\* zip.addFile(finalFileName, ...), zip.file(filename, bytes): into the run's own
\* archive
OwnArchive(rs, r, name) == [rs EXCEPT ![r].zip = ZipPut(rs[r].zip, name, <<>>)]

ReqAt(r, at) == reqs[r].pc = at /\ reqs[r].queue # <<>>
OthersUnchanged ==
  UNCHANGED <<hvars, sanRaw, sanOut, extDoc, extOut, nmQueue, nmNames, idName, idOut, uvars>>

\* Express, from the await of extractIntestatario to that of PDFDocument.load: the
\* name is chosen by the collision loop
ReqCheck(r) ==
  /\ variant = "express"
  /\ ReqAt(r, "extract")
  /\ reqs' = [reqs EXCEPT ![r].name = ExpressFileName(reqs[r].zip, Head(reqs[r].queue)),
                          ![r].pc = "load"]
  /\ OthersUnchanged

\* Express, from the await of PDFDocument.load to that of mergedDoc.save()
ReqLoaded(r) ==
  /\ variant = "express"
  /\ ReqAt(r, "load")
  /\ reqs' = [reqs EXCEPT ![r].pc = "save"]
  /\ OthersUnchanged

\* Express, from the await of mergedDoc.save() on: zip.addFile, and the next turn
\* of the loop up to its first await
ReqInsert(r) ==
  /\ variant = "express"
  /\ ReqAt(r, "save")
  /\ reqs' = [OwnArchive(reqs, r, reqs[r].name) EXCEPT
                ![r].queue = Tail(reqs[r].queue), ![r].pc = "extract", ![r].name = <<>>]
  /\ OthersUnchanged

\* Vercel, from the await of mergedPdf.save() on: the filename is built and
\* zip.file(filename, bytes) follows with no await between the two
ReqPut(r) ==
  /\ variant = "vercel"
  /\ ReqAt(r, "extract")
  /\ reqs' = [OwnArchive(reqs, r, Head(reqs[r].queue) \o DotPdf) EXCEPT
                ![r].queue = Tail(reqs[r].queue)]
  /\ OthersUnchanged

\* the loop is over: the archive is sent
ReqSend(r) ==
  /\ reqs[r].pc = "extract" /\ reqs[r].queue = <<>>
  /\ reqs' = [reqs EXCEPT ![r].pc = "done"]
  /\ OthersUnchanged

ConcNext ==
  \E r \in Requests : ReqCheck(r) \/ ReqLoaded(r) \/ ReqInsert(r) \/ ReqPut(r) \/ ReqSend(r)

SpecConc == ConcInit /\ [][ConcNext]_vars

\* ------------------------------------------------------------------ the page
\* The three pages: the one that posts to the Express server (variant "express"),
\* the one that posts to the Vercel handler ("vercel") and the one that merges in
\* the browser ("browser"). The user picks files among a few of the documents.
MaxListed == 3
UiDocs == {1, 2, 4, 7, 9}
\* const idMatch = f.name.match(/(\d{2}-\d{4,})/), extractGroupIdFromFilename(f.name)
UiGroupId == [d \in UiDocs |-> BrowserGroupId(DocPool[d].name)]
DocsOf(list) == [k \in 1..Len(list) |-> list[k].doc]
GroupCount(list, id) == Cardinality({k \in 1..Len(list) : UiGroupId[list[k].doc] = id})

\* a list whose marks are left as they were
updatePairingStale(currentFiles) == currentFiles
\* updatePairing, the list it hands to setFiles
updatePairing(currentFiles) ==
  [k \in 1..Len(currentFiles) |->
     [currentFiles[k] EXCEPT !.paired =
        /\ UiGroupId[currentFiles[k].doc] # Null
        /\ GroupCount(currentFiles, UiGroupId[currentFiles[k].doc]) >= MinGroupFiles]]
hasAnyPairedGroup == \E k \in 1..Len(uiFiles) : uiFiles[k].paired

\* what the server answers to the list fs, or what the merge in the browser
\* comes to: the archive (ok), or the message of the failure
Loads(fs, ms) == \A k \in 1..Len(ms) : ~DocPool[fs[ms[k]]].loadFails
ExpressAnswers(fs) ==
  LET gs == ExpressGroups(fs)
      complete == {k \in 1..Len(gs) : ExpressComplete(gs[k])}
  IN  IF \E k \in complete : ~Loads(fs, <<gs[k].main, gs[k].allegato>>)
      THEN [ok |-> FALSE, message |-> "Errore interno durante l'unione dei file."]
      ELSE IF complete = {}
      THEN [ok |-> FALSE, message |-> "Nessuna coppia valida trovata (manca main o allegato)."]
      ELSE [ok |-> TRUE, message |-> NoError]
VercelAnswers(fs) ==
  LET gs == MemberGroups(fs)
      big == {k \in 1..Len(gs) : ~TooFew(gs[k].members)}
      ordered(k) == VercelOrder(fs, gs[k].members)
  IN  IF Len(fs) < MinGroupFiles
      THEN [ok |-> FALSE, message |-> "Servono almeno due PDF"]
      ELSE IF \E k \in big : DocPool[fs[ordered(k)[1]]].parseFails \/ ~Loads(fs, ordered(k))
      THEN [ok |-> FALSE, message |-> "Errore durante il merge PDF"]
      ELSE IF big = {}
      THEN [ok |-> FALSE, message |-> "Nessuna coppia valida trovata"]
      ELSE [ok |-> TRUE, message |-> NoError]
BrowserComesTo(fs) ==
  LET gs == ValidGroups(fs)
  IN  IF \E k \in 1..Len(gs) : ~Loads(fs, gs[k].members)
      THEN [ok |-> FALSE, message |-> "<err.message>"]
      ELSE [ok |-> TRUE, message |-> NoError]
MergeOf(fs) ==
  CASE variant = "express" -> ExpressAnswers(fs)
    [] variant = "vercel"  -> VercelAnswers(fs)
    [] variant = "browser" -> BrowserComesTo(fs)

UiInit ==
  /\ variant \in Variants
  /\ UiIdle
  /\ HandlerInit
  /\ SanIdle
  /\ ExtIdle
  /\ NmIdle
  /\ IdIdle
  /\ ConcIdle

UiOthers ==
  UNCHANGED <<hvars, sanRaw, sanOut, extDoc, extOut, nmQueue, nmNames, idName, idOut, cvars>>

\* setFiles(updated); setIsSuccess(false); setError(null)
SetList(list) ==
  /\ uiFiles' = list
  /\ isSuccess' = FALSE
  /\ error' = NoError

\* handleFiles: the file picked or dropped joins the list
UiAdd(d) ==
  /\ Len(uiFiles) < MaxListed
  /\ \A k \in 1..Len(uiFiles) : uiFiles[k].doc # d
  /\ SetList(updatePairing(Append(uiFiles, [doc |-> d, paired |-> FALSE])))
  /\ UNCHANGED <<isProcessing, inFlight, formData>>
  /\ UiOthers

\* removeFile(f.id)
UiRemove(i) ==
  /\ i \in 1..Len(uiFiles)
  /\ SetList(updatePairing([k \in 1..(Len(uiFiles) - 1) |->
                              IF k < i THEN uiFiles[k] ELSE uiFiles[k + 1]]))
  /\ UNCHANGED <<isProcessing, inFlight, formData>>
  /\ UiOthers

\* "Rimuovi tutti", shown with the list: setFiles([]) alone on the page of the
\* Express server, removeAll on the other two
UiRemoveAll ==
  /\ uiFiles # <<>>
  /\ uiFiles' = <<>>
  /\ IF variant = "express" THEN UNCHANGED <<isSuccess, error>>
     ELSE isSuccess' = FALSE /\ error' = NoError
  /\ UNCHANGED <<isProcessing, inFlight, formData>>
  /\ UiOthers

\* a button that is never disabled
ButtonAlways == uiFiles # <<>>
\* the merge button, shown with the list: disabled={isProcessing ||
\* !files.some(f => f.paired)} on the page of the Express server,
\* disabled={isProcessing} on the other two
ButtonEnabled ==
  /\ uiFiles # <<>>
  /\ ~isProcessing
  /\ variant = "express" => hasAnyPairedGroup

\* processFiles up to its await: setIsProcessing(true); setError(null);
\* setIsSuccess(false); the list goes into the request
UiStart ==
  /\ ButtonEnabled
  /\ hasAnyPairedGroup
  /\ isProcessing' = TRUE
  /\ error' = NoError
  /\ isSuccess' = FALSE
  /\ inFlight' = Append(inFlight, [docs |-> DocsOf(uiFiles), result |-> MergeOf(DocsOf(uiFiles))])
  /\ formData' = DocsOf(uiFiles)
  /\ UNCHANGED uiFiles
  /\ UiOthers

\* processFiles of the two pages whose button stays enabled without a pair:
\* if (!hasAnyPairedGroup) { setError(...); return; }
UiRefuse ==
  /\ ButtonEnabled
  /\ ~hasAnyPairedGroup
  /\ error' = "Nessuna coppia valida trovata. Carica almeno 2 PDF con lo stesso ID (es. 25-0249.pdf e 25-0249_Allegato1.pdf)."
  /\ UNCHANGED <<uiFiles, isProcessing, isSuccess, inFlight, formData>>
  /\ UiOthers

\* the rest of processFiles: the archive is downloaded; setIsSuccess(true);
\* finally setIsProcessing(false)
UiSucceed ==
  /\ inFlight # <<>>
  /\ Head(inFlight).result.ok
  /\ isSuccess' = TRUE
  /\ isProcessing' = FALSE
  /\ inFlight' = Tail(inFlight)
  /\ UNCHANGED <<uiFiles, error, formData>>
  /\ UiOthers

\* the rest of processFiles: the answer is not ok; catch: setError(err.message);
\* finally setIsProcessing(false)
UiFail ==
  /\ inFlight # <<>>
  /\ ~Head(inFlight).result.ok
  /\ error' = Head(inFlight).result.message
  /\ isProcessing' = FALSE
  /\ inFlight' = Tail(inFlight)
  /\ UNCHANGED <<uiFiles, isSuccess, formData>>
  /\ UiOthers

\* fetch rejects (the server is not reached): the same catch
UiUnreached ==
  /\ inFlight # <<>>
  /\ variant # "browser"
  /\ error' = "Failed to fetch"
  /\ isProcessing' = FALSE
  /\ inFlight' = Tail(inFlight)
  /\ UNCHANGED <<uiFiles, isSuccess, formData>>
  /\ UiOthers

UiSettle == UiSucceed \/ UiFail \/ UiUnreached

UiNext ==
  \/ \E d \in UiDocs : UiAdd(d)
  \/ \E i \in 1..MaxListed : UiRemove(i)
  \/ UiRemoveAll
  \/ UiStart \/ UiRefuse
  \/ UiSucceed \/ UiFail \/ UiUnreached

SpecUi == UiInit /\ [][UiNext]_vars
\* a request that was sent is answered or fails, and a merge in the browser ends
SpecUiLive == SpecUi /\ WF_vars(UiSettle)

\* --------------------------------------------------------------- properties
\* what the filenames of the uploads say
GroupIdOf == [d \in DocIds |-> extractGroupIdFromFilename(DocPool[d].name)]
IsAllegatoOf == [d \in DocIds |-> isAllegato(DocPool[d].name)]
IdAt(pos) == GroupIdOf[files[pos]]
\* the uploads that carry the identifier id, and those of them of each role
Carrying(id) == {k \in 1..Len(files) : IdAt(k) = id}
Mains(id) == {k \in Carrying(id) : ~IsAllegatoOf[files[k]]}
Attachments(id) == {k \in Carrying(id) : IsAllegatoOf[files[k]]}
SeqSet(q) == {q[k] : k \in 1..Len(q)}
PageCount(pos) == Len(DocAt(pos).pages)
RECURSIVE SumPages(_)
SumPages(ms) == IF ms = <<>> THEN 0 ELSE PageCount(ms[1]) + SumPages(Tail(ms))
Done == pc = "done"

\* C1: within one response no two merged outputs have the same filename; the
\* archive holds exactly one entry per merged group, each with the pages it was
\* added with (no entry is overwritten)
C1_UniqueFilenames ==
  /\ \A i, j \in 1..Len(outputs) : i # j => outputs[i].name # outputs[j].name
  /\ Len(zip) = Len(outputs)
  /\ count = Len(outputs)
  /\ \A k \in 1..Len(outputs) :
       zip[k] = [name |-> outputs[k].name, pages |-> outputs[k].pages]

\* two groups of one response with the same base name: the later one got "_2"
C1_CollisionResolved ==
  /\ variant = "express"
  /\ \E i, j \in 1..Len(outputs) :
       /\ i < j
       /\ outputs[j].name =
            SubSeq(outputs[i].name, 1, Len(outputs[i].name) - Len(DotPdf))
              \o <<"_">> \o Decimal(FirstSuffix) \o DotPdf

\* C2: the page count of every merged output equals the sum of the page counts of
\* the documents merged into it, whatever their page counts (zero included)
C2_PageCountIsSum ==
  \A k \in 1..Len(outputs) : Len(outputs[k].pages) = SumPages(outputs[k].members)

\* a merged output of documents that have no pages
C2_ZeroPagesMerged ==
  \E k \in 1..Len(outputs) :
    SumPages(outputs[k].members) = 0 /\ Len(outputs[k].pages) = 1

\* C3: the pages of a merged output are the members' pages, concatenated in member
\* order, every main document before every attachment, each document's pages in
\* their own order
C3_PagesConcatenated ==
  \A k \in 1..Len(outputs) :
    /\ outputs[k].pages = ConcatPages(files, outputs[k].members)
    /\ \A i, j \in 1..Len(outputs[k].members) :
         (IsAllegatoOf[files[outputs[k].members[i]]]
            /\ ~IsAllegatoOf[files[outputs[k].members[j]]]) => j < i

\* an output whose pages are not those of its members
C3_PageOfNoMember ==
  \E k \in 1..Len(outputs) : BlankPage \in SeqSet(outputs[k].pages)

\* C4: every upload whose name has an identifier is a member of the group of that
\* identifier, and when the group is emitted every such upload has all its pages
\* in the output: none is replaced or dropped
C4_NoMemberDropped ==
  \A k \in 1..Len(outputs) :
    \A m \in Carrying(outputs[k].id) :
      /\ m \in SeqSet(outputs[k].members)
      /\ \A p \in 1..PageCount(m) : <<m, p>> \in SeqSet(outputs[k].pages)

\* an emitted group that lacks one of the uploads carrying its identifier
C4_MemberDropped ==
  \E k \in 1..Len(outputs) : Carrying(outputs[k].id) \ SeqSet(outputs[k].members) # {}

\* which groups a variant merges: Express those with a main document and an
\* attachment, the other two those of two uploads or more
Qualifies(id) ==
  IF variant = "express" THEN Mains(id) # {} /\ Attachments(id) # {}
  ELSE Cardinality(Carrying(id)) >= MinGroupFiles

\* C5 as stated: a group without a main document or without an attachment never
\* produces a merged output
C5_IncompleteNeverMerged ==
  \A k \in 1..Len(outputs) :
    Mains(outputs[k].id) # {} /\ Attachments(outputs[k].id) # {}

\* C5: Express merges a group only if it has a main document and an attachment;
\* the Vercel handler and the in-browser merge skip a group exactly when it has
\* fewer than two uploads and merge the others whatever their roles; a skipped
\* group raises no error of its own
C5_SkipRule ==
  /\ \A k \in 1..Len(outputs) : Qualifies(outputs[k].id)
  /\ response.kind = "failed" => gi <= Len(groups) /\ Qualifies(groups[gi].id)
  /\ response.kind = "archive" =>
       \A m \in 1..Len(files) :
         (IdAt(m) # Null /\ Qualifies(IdAt(m))) =>
           \E k \in 1..Len(outputs) : outputs[k].id = IdAt(m)

\* a merged output of a group without attachment
C5_MainsOnlyMerged ==
  /\ variant # "express"
  /\ \E k \in 1..Len(outputs) : Attachments(outputs[k].id) = {}

\* C6: an upload whose name has no identifier is in no group, gives no page and
\* no name to any output, and an upload of nothing but such documents is rejected
\* with no archive
C6_NoIdentifierExcluded ==
  /\ \A k \in 1..Len(groups) : groups[k].id # Null
  /\ \A k \in 1..Len(outputs) :
       /\ \A m \in SeqSet(outputs[k].members) : IdAt(m) # Null
       /\ \A p \in SeqSet(outputs[k].pages) : p = BlankPage \/ IdAt(p[1]) # Null
       /\ outputs[k].namedFrom # 0 => IdAt(outputs[k].namedFrom) # Null
  /\ (Done /\ files # <<>> /\ \A m \in 1..Len(files) : IdAt(m) = Null) =>
       response.kind = "rejected" /\ zip = <<>> /\ count = 0

\* an archive was sent for an upload that held a document without identifier
C6_UnidentifiedAmongMerged ==
  /\ response.kind = "archive"
  /\ \E m \in 1..Len(files) : IdAt(m) = Null

\* C7: when no group was merged the request ends with an error and no archive;
\* when a group was merged and nothing threw, the response is the archive of the
\* merged outputs
C7_EmptyResult ==
  Done =>
    /\ count = 0 => response.kind \in {"rejected", "failed"} /\ zip = <<>>
    /\ (count > 0 /\ response.kind # "failed") =>
         /\ response.kind = "archive"
         /\ Len(zip) = count
         /\ \A k \in 1..Len(outputs) : \E e \in 1..Len(zip) :
              zip[e].name = outputs[k].name /\ zip[e].pages = outputs[k].pages

\* groups were found and none was merged
C7_NothingMerged ==
  Done /\ groups # <<>> /\ count = 0 /\ response.kind = "rejected"

\* a group whose turn of the loop throws: one of the documents it loads is
\* rejected by pdf-lib, or (Vercel) the text parser rejects its first document
GroupThrows(g) ==
  CASE variant = "express" ->
         /\ g.main # 0 /\ g.allegato # 0
         /\ DocAt(g.main).loadFails \/ DocAt(g.allegato).loadFails
    [] variant = "vercel" ->
         ~TooFew(g.members) /\ VercelThrows(VercelOrder(files, g.members))
    [] variant = "browser" -> BrowserThrows(g.members)

\* C8 as stated: a failure in one group drops only that group, so a request in
\* which a group was merged ends with the archive
C8_ParseErrorDropsGroup ==
  (Done /\ count > 0) => response.kind = "archive"

\* C8: a failure in a group that is being merged ends the whole request with an
\* error and without archive, whatever was merged before; the loop never goes
\* past such a group
C8_ParseErrorAborts ==
  /\ \A k \in 1..Len(groups) : GroupThrows(groups[k]) => gi <= k
  /\ (Done /\ \E k \in 1..Len(groups) : GroupThrows(groups[k])) =>
       response.kind = "failed"

\* the request failed after a group had been merged
C8_AbortedAfterMerge ==
  Done /\ response.kind = "failed" /\ count > 0

\* C9: no error of the metadata extraction reaches the request handler: a request
\* that failed in a group failed because pdf-lib rejected a document of it
C9_ExtractionNeverRaises ==
  (response.kind = "failed" /\ gi <= Len(groups)) =>
    \E m \in SeqSet(IF variant = "express"
                     THEN <<groups[gi].main, groups[gi].allegato>>
                     ELSE groups[gi].members) : DocAt(m).loadFails

\* the Vercel handler failed in a group all of whose documents pdf-lib loads
C9_ExtractionRaised ==
  /\ variant = "vercel"
  /\ response.kind = "failed"
  /\ \A m \in SeqSet(groups[gi].members) : ~DocAt(m).loadFails

\* C10: cleanupCandidateName returns null, or a string of four characters or
\* more that is not made of digits, spaces, slashes, dots and hyphens only and
\* holds none of the characters \ / : * ? " < > |
C10_SanitizerResult ==
  sanOut # SanPending =>
    \/ sanOut = Null
    \/ /\ Len(sanOut) >= MinNameLen
       /\ \E i \in 1..Len(sanOut) : sanOut[i] \notin Digits \cup {" ", "/", ".", "-"}
       /\ \A i \in 1..Len(sanOut) : sanOut[i] \notin IllegalChars

\* a candidate with an illegal character that was cut at a stop word and kept
C10_CutAndKept ==
  /\ sanOut \notin {SanPending, Null}
  /\ \E i \in 1..Len(sanRaw) : sanRaw[i] \in IllegalChars
  /\ \E k \in 1..Len(stopWords) :
       /\ Includes(ToLower(sanRaw), <<" ">> \o stopWords[k])
       /\ ~Includes(ToLower(sanOut), stopWords[k])

\* the cleaned candidate the stop-word loop starts from
SanCleaned == Trim(CollapseWs(StripIllegal(sanRaw)))
\* a space followed by the stop word w, whatever the case, at index i of s
StopWordAt(s, i, w) ==
  /\ i + Len(w) <= Len(s)
  /\ s[i] = " "
  /\ \A k \in 1..Len(w) : Lower(s[i + k]) = w[k]
StopWordHits(s) ==
  {i \in 1..Len(s) : \E k \in 1..Len(stopWords) : StopWordAt(s, i, stopWords[k])}
\* s up to its earliest space-and-stop-word, trimmed
EarliestCut(s) ==
  IF StopWordHits(s) = {} THEN s
  ELSE Trim(SubSeq(s, 1, (CHOOSE i \in StopWordHits(s) : \A j \in StopWordHits(s) : i <= j) - 1))

\* C11: cleanupCandidateName cuts the cleaned candidate at the earliest space
\* followed by a stop word, whatever the case and whichever the stop word, and
\* drops the match and all that follows: a result that is kept holds no space
\* followed by a stop word
C11_CutAtEarliestStopWord ==
  sanOut # SanPending =>
    /\ sanOut = RejectOrKeep(EarliestCut(SanCleaned))
    /\ sanOut # Null => StopWordHits(sanOut) = {}

\* a candidate that was kept with a space and a stop word in it
C11_StopWordKept ==
  /\ sanOut \notin {SanPending, Null}
  /\ StopWordHits(sanOut) # {}

\* the text the heuristics of extractIntestatario search, and what each gives
ExtText == normalizeTextForSearch(PdfParseText(extDoc.pages))
ExtCandidates == <<Heuristic1(ExtText), Heuristic2(ExtText), Heuristic3(ExtText)>>

\* out is the first of the candidates cs that is not null, and null only when
\* all are
FirstAccepted(cs, out) ==
  /\ \A k \in 1..Len(cs) :
       (cs[k] # Null /\ \A j \in 1..(k - 1) : cs[j] = Null) => out = cs[k]
  /\ out = Null <=> \A k \in 1..Len(cs) : cs[k] = Null

\* C12: extractIntestatario returns the sanitized candidate of the first of its
\* three heuristics whose capture the sanitizer accepts; a rejected capture makes
\* it go on with the next heuristic, and it returns null only when all three fail
C12_FirstAcceptedHeuristic ==
  extOut.done => FirstAccepted(ExtCandidates, extOut.express)

\* "Intestatario:" was found with a capture the sanitizer rejects, and a later
\* heuristic gave the name
C12_RejectedThenFound ==
  /\ extOut.done
  /\ Match(ReIntestatarioSameLine, ExtText).found
  /\ Heuristic1(ExtText) = Null
  /\ extOut.express # Null

\* what was extracted for an output o: the reference number (none of the Express
\* server's code looks for one) and the addressee, Null when absent
VercelRefOf ==
  [d \in DocIds |-> GroupOr(VercelTextOf[d], Match(ReFattura, VercelTextOf[d]), Null)]
VercelAddresseeOf ==
  [d \in DocIds |->
     GroupOr(VercelTextOf[d], Match(ReIntestatarioVercel, VercelTextOf[d]),
             WholeOr(VercelTextOf[d], Match(ReDr, VercelTextOf[d]), Null))]
ExtractedRef(o) ==
  CASE variant = "express" -> Null
    [] variant = "vercel"  -> VercelRefOf[files[o.namedFrom]]
    [] variant = "browser" -> BrowserInfoOf[files[o.namedFrom]].fatturaNo
ExtractedName(o) ==
  CASE variant = "express" ->
         IF o.namedFrom = 0 THEN Null ELSE ExpressNameOf[files[o.namedFrom]]
    [] variant = "vercel"  -> VercelAddresseeOf[files[o.namedFrom]]
    [] variant = "browser" -> BrowserInfoOf[files[o.namedFrom]].intestatario
\* a reference number and a name as a filename spells them
RefInName(ref) == ReplaceFirst(ref, "/", "-")
NameInName(name) == Trim(CollapseWs(StripIllegal(name)))
\* the strings of parts occur in s one after the other
RECURSIVE InOrder(_, _)
InOrder(s, parts) ==
  IF parts = <<>> THEN TRUE
  ELSE /\ IndexOf(s, parts[1]) >= 0
       /\ InOrder(SubSeq(s, IndexOf(s, parts[1]) + Len(parts[1]) + 1, Len(s)), Tail(parts))

\* C13 as stated: with a reference number and an addressee the filename is made
\* of the identifier, the reference number and the name, in that order; with the
\* addressee only, of the identifier and the name
C13_IdRefName ==
  \A k \in 1..Len(outputs) :
    Truthy(ExtractedName(outputs[k])) =>
      IF Truthy(ExtractedRef(outputs[k]))
      THEN InOrder(outputs[k].name, <<outputs[k].id, RefInName(ExtractedRef(outputs[k])),
                                      NameInName(ExtractedName(outputs[k]))>>)
      ELSE InOrder(outputs[k].name, <<outputs[k].id, NameInName(ExtractedName(outputs[k]))>>)

\* the filename of output o for an addressee name and a reference number ref
\* (Null when none was extracted), by implementation
NamedAs(o, ref, name) ==
  CASE variant = "express" ->
         \/ o.name = NameInName(name) \o DotPdf
         \/ \E n \in FirstSuffix..(FirstSuffix + Len(outputs)) :
              o.name = NameInName(name) \o <<"_">> \o Decimal(n) \o DotPdf
    [] variant = "vercel" ->
         o.name = o.id \o Dash \o (IF Truthy(ref) THEN RefInName(ref) ELSE o.id)
                       \o Dash \o NameInName(name) \o DotPdf
    [] variant = "browser" ->
         o.name = o.id \o Dash \o (IF Truthy(ref) THEN RefInName(ref) \o Dash ELSE <<>>)
                       \o NameInName(name) \o DotPdf

\* C13: when an addressee was extracted, the Vercel handler names the output
\* "<id> - <reference> - <name>.pdf", the identifier standing in for a reference
\* number that was not found; the in-browser merge names it
\* "<id> - <reference> - <name>.pdf", or "<id> - <name>.pdf" without reference
\* number; the Express server names it "<name>.pdf" (with a suffix "_N" when the
\* name is taken), without the identifier
C13_FilenameByVariant ==
  \A k \in 1..Len(outputs) :
    Truthy(ExtractedName(outputs[k])) =>
      NamedAs(outputs[k], ExtractedRef(outputs[k]), ExtractedName(outputs[k]))

\* an output named after the addressee alone, its identifier nowhere in the name
C13_NameWithoutIdentifier ==
  \E k \in 1..Len(outputs) :
    /\ Truthy(ExtractedName(outputs[k]))
    /\ ~Includes(outputs[k].name, outputs[k].id)

\* nothing was extracted for output o
NoMetadata(o) == ~Truthy(ExtractedName(o)) /\ ~Truthy(ExtractedRef(o))

\* C14 as stated: a group for which neither an addressee nor a reference number
\* is found is merged under the bare identifier, "<id>.pdf"
C14_BareIdentifier ==
  \A k \in 1..Len(outputs) :
    NoMetadata(outputs[k]) => outputs[k].name = outputs[k].id \o DotPdf

\* C14: a group for which nothing is found is merged all the same; the Express
\* server and the in-browser merge name it "<id>.pdf", the Vercel handler
\* "<id> - <id> - Documento.pdf"
C14_FallbackFilename ==
  \A k \in 1..Len(outputs) :
    NoMetadata(outputs[k]) =>
      outputs[k].name =
        IF variant = "vercel"
        THEN outputs[k].id \o Dash \o outputs[k].id \o Dash \o Documento \o DotPdf
        ELSE outputs[k].id \o DotPdf

\* the Vercel handler merged a group for which nothing was found
C14_DocumentoFallback ==
  /\ variant = "vercel"
  /\ \E k \in 1..Len(outputs) :
       NoMetadata(outputs[k]) /\ Includes(outputs[k].name, Documento)

\* the filenames given before the k-th of the batch
NmTaken(k) == {nmNames[j].name : j \in 1..(k - 1)}
Suffixed(base, n) == base \o <<"_">> \o Decimal(n) \o DotPdf

NamingItems(o) ==
  UNION {SeqSet(DocAt(o.namedFrom).pages[p]) : p \in 1..Len(DocAt(o.namedFrom).pages)}
HasIllegal(s) == \E i \in 1..Len(s) : s[i] \in IllegalChars

\* C16: no filename placed in the archive holds one of \ / : * ? " < > |, and
\* names are compared after the stripping: two groups whose names differ before
\* it only are told apart by the suffix
C16_NoIllegalCharacter ==
  /\ \A e \in 1..Len(zip) : ~HasIllegal(zip[e].name)
  /\ \A k \in 1..Len(outputs) : ~HasIllegal(outputs[k].name)
  /\ \A i, j \in 1..Len(outputs) :
       (i < j /\ variant = "express"
          /\ Truthy(ExtractedName(outputs[i]))
          /\ ExtractedName(outputs[i]) = ExtractedName(outputs[j]))
         => /\ outputs[j].name # outputs[i].name
            /\ \E n \in FirstSuffix..(FirstSuffix + Len(outputs)) :
                 outputs[j].name = Suffixed(ExtractedName(outputs[j]), n)

\* the addressee of an output was written with an illegal character, and the
\* output's name collided with an earlier one once the character was stripped
C16_StrippedThenCollided ==
  /\ variant = "express"
  /\ \E i, j \in 1..Len(outputs) :
       /\ i < j
       /\ outputs[j].namedFrom # 0
       /\ \E it \in NamingItems(outputs[j]) :
            HasIllegal(it) /\ NameInName(it) = ExtractedName(outputs[j])
       /\ outputs[j].name = Suffixed(ExtractedName(outputs[i]), FirstSuffix)

\* the name of the upload at position a comes before the one at position b,
\* lower case against lower case
NameBefore(a, b) == localeCompare(ToLower(NameAt(a)), ToLower(NameAt(b))) < 0

\* C17: in a group with several uploads lacking the marker, the one merged first
\* is the first of them in the case-insensitive order of the filenames, so that
\* the choice does not depend on the order of the upload
C17_MainIsFirstByName ==
  \A k \in 1..Len(outputs) :
    Mains(outputs[k].id) # {} =>
      /\ outputs[k].members[1] \in Mains(outputs[k].id)
      /\ \A m \in Mains(outputs[k].id) : ~NameBefore(m, outputs[k].members[1])

\* the Express server merged as main document an upload although another upload
\* without the marker has the same identifier and a name that comes before
C17_LaterUploadIsMain ==
  /\ variant = "express"
  /\ \E k \in 1..Len(outputs) : \E m \in Mains(outputs[k].id) :
       /\ NameBefore(m, outputs[k].members[1])
       /\ outputs[k].members[1] > m

\* the attachment index of each document's name, 0 when it has none
AllegatoNumOf == [d \in DocIds |-> AllegatoNum(ToLower(DocPool[d].name))]

\* C18: in a merged group every upload without the marker precedes every
\* attachment; two attachments whose names hold an index are in the order of the
\* indices, taken as numbers; two without index are in the order of their names;
\* the pages follow this order
C18_ResolvedOrder ==
  \A k \in 1..Len(outputs) :
    /\ \A i, j \in 1..Len(outputs[k].members) :
         i < j =>
           LET a == files[outputs[k].members[i]]
               b == files[outputs[k].members[j]]
           IN  /\ ~(IsAllegatoOf[a] /\ ~IsAllegatoOf[b])
               /\ (IsAllegatoOf[a] /\ IsAllegatoOf[b]
                     /\ AllegatoNumOf[a] > 0 /\ AllegatoNumOf[b] > 0)
                    => AllegatoNumOf[a] <= AllegatoNumOf[b]
               /\ (IsAllegatoOf[a] /\ IsAllegatoOf[b]
                     /\ AllegatoNumOf[a] = 0 /\ AllegatoNumOf[b] = 0)
                    => ~NameBefore(outputs[k].members[j], outputs[k].members[i])
    /\ SelectSeq(outputs[k].pages, LAMBDA p : p # BlankPage)
         = ConcatPages(files, outputs[k].members)

\* the Vercel handler merged the tenth attachment before the second
C18_TenthBeforeSecond ==
  /\ variant = "vercel"
  /\ \E k \in 1..Len(outputs) : \E i, j \in 1..Len(outputs[k].members) :
       /\ i < j
       /\ IsAllegatoOf[files[outputs[k].members[i]]]
       /\ IsAllegatoOf[files[outputs[k].members[j]]]
       /\ AllegatoNumOf[files[outputs[k].members[j]]] > 0
       /\ AllegatoNumOf[files[outputs[k].members[i]]]
            > AllegatoNumOf[files[outputs[k].members[j]]]

\* two digits, a hyphen and four digits start at index i of s
IdShapeAt(s, i) ==
  /\ i >= 1 /\ i + 6 <= Len(s)
  /\ s[i] \in Digits /\ s[i + 1] \in Digits /\ s[i + 2] = "-"
  /\ \A k \in 3..6 : s[i + k] \in Digits
\* id is the leftmost such substring of s, with all the digits that follow it
IsLeftmostId(s, id) ==
  \E i \in 1..Len(s) :
    /\ IdShapeAt(s, i)
    /\ \A j \in 1..(i - 1) : ~IdShapeAt(s, j)
    /\ Len(id) >= 7 /\ i + Len(id) - 1 <= Len(s)
    /\ id = SubSeq(s, i, i + Len(id) - 1)
    /\ \A k \in 7..(Len(id) - 1) : s[i + k] \in Digits
    /\ (i + Len(id) <= Len(s)) => s[i + Len(id)] \notin Digits

\* C19: of every filename the extractor returns the leftmost substring made of
\* two digits, a hyphen and four digits or more, whatever surrounds it, and
\* nothing exactly when the filename has no such substring; the Express server,
\* the Vercel handler and the browser get the same identifier
C19_LeftmostIdentifier ==
  idOut.done =>
    /\ idOut.vercel = idOut.express
    /\ idOut.browser = idOut.express
    /\ idOut.express = Null <=> \A i \in 1..Len(idName) : ~IdShapeAt(idName, i)
    /\ idOut.express # Null => IsLeftmostId(idName, idOut.express)

\* an identifier with more than four digits, found after a digit that is not part
\* of it
C19_DigitsAround ==
  /\ idOut.done
  /\ idOut.express # Null
  /\ Len(idOut.express) > 7
  /\ IndexOf(idName, idOut.express) > 0
  /\ idName[IndexOf(idName, idOut.express)] \in Digits

\* the index of the first character of s from i on that is not white space
SkipWs(s, i) ==
  IF \A j \in i..Len(s) : s[j] \in WhiteSpace THEN Len(s) + 1
  ELSE CHOOSE j \in i..Len(s) : s[j] \notin WhiteSpace /\ \A h \in i..(j - 1) : s[h] \in WhiteSpace
CharAt(s, i) == IF i >= 1 /\ i <= Len(s) THEN s[i] ELSE ""
\* where the number starts when "Fattura N°:" or "Fattura N:" (any case) starts
\* at index i of s
NumberStart(s, i) ==
  LET n == SkipWs(s, i + 7)
      c == IF CharAt(s, n + 1) \in {Degree, Ordinal} THEN n + 2 ELSE n + 1
  IN  IF /\ i + 6 <= Len(s)
         /\ ToLower(SubSeq(s, i, i + 6)) = <<"f","a","t","t","u","r","a">>
         /\ Lower(CharAt(s, n)) = "n"
         /\ CharAt(s, c) = ":"
      THEN SkipWs(s, c + 1) ELSE 0
\* two digits, a slash and five digits start at index e of s
RefShapeAt(s, e) ==
  /\ e >= 1 /\ e + 7 <= Len(s)
  /\ s[e] \in Digits /\ s[e + 1] \in Digits /\ s[e + 2] = "/"
  /\ \A k \in 3..7 : s[e + k] \in Digits
RefHits(s) == {i \in 1..Len(s) : RefShapeAt(s, NumberStart(s, i))}
\* the number after the first such label of s, Null when s has none
RefIn(s) ==
  IF RefHits(s) = {} THEN Null
  ELSE LET e == NumberStart(s, CHOOSE i \in RefHits(s) : \A j \in RefHits(s) : i <= j)
       IN  SubSeq(s, e, e + 7)
\* the same over the pages the browser reads, the second before the first
RefInPages(pages) ==
  IF Len(pages) >= 2 /\ RefIn(readPageText(pages, 2)) # Null
  THEN RefIn(readPageText(pages, 2))
  ELSE IF Len(pages) >= 1 THEN RefIn(readPageText(pages, 1))
  ELSE Null

\* C20: the reference number is the number of two digits, a slash and five
\* digits that follows "Fattura N°:" or "Fattura N:"; when the text has none, it
\* is the identifier with a slash for its hyphen in the Vercel handler and absent
\* in the browser, whether an addressee was found or not
C20_ReferenceNumber ==
  extOut.done =>
    /\ extOut.vercel.fattura =
         IF RefIn(PdfParseText(extDoc.pages)) # Null THEN RefIn(PdfParseText(extDoc.pages))
         ELSE ReplaceFirst(ExtGroupId, "-", "/")
    /\ extOut.browser.fatturaNo = RefInPages(extDoc.pages)

\* a document with an addressee and without reference number
C20_NameWithoutReference ==
  /\ extOut.done
  /\ Truthy(extOut.browser.intestatario)
  /\ extOut.browser.fatturaNo = Null
  /\ extOut.vercel.fattura = <<"2","5","/","0","0","0","1">>

\* the metadata a document gave, under each variant
ExtMetadata ==
  {extOut.express, extOut.vercel.intestatario, extOut.vercel.fattura,
   extOut.browser.intestatario, extOut.browser.fatturaNo}
\* what is left of a string once its illegal characters are stripped
Stripped(s) == Trim(CollapseWs(StripIllegal(s)))

\* C21: the addressee and the reference number of a document are each absent or
\* a string that is not empty, and not empty either once the illegal characters
\* are stripped from it
C21_NeverEmpty ==
  extOut.done => \A m \in ExtMetadata : m # Null => m # <<>> /\ Stripped(m) # <<>>

\* the browser read an addressee that is the empty string
C21_EmptyAddressee ==
  /\ extOut.done
  /\ extOut.browser.intestatario = <<>>
  /\ extOut.express = Null

\* C22: once the request is answered none of its uploaded temporary files is
\* left, whether the answer is the archive, the failure of a request that merged
\* no group, or the internal error
C22_TempReleased == pc = "done" => tmp = {}

\* the request that merged no group is answered with its uploads still on disk
C22_UploadsLeftBehind ==
  /\ pc = "done"
  /\ response.status = 400
  /\ files # <<>>
  /\ tmp = 1..Len(files)

\* the names of the entries of an archive
EntryNames(z) == {z[k].name : k \in 1..Len(z)}
ReqChecked(rq) == rq.pc \in {"load", "save"}

\* C23: a request names its groups one at a time and its archive only grows, and
\* from the moment a name is found free to the moment it is inserted nothing else
\* enters the archive of that request, whatever the other requests do meanwhile
C23_CheckThenInsert ==
  [][\A r \in Requests :
       /\ EntryNames(reqs[r].zip) \subseteq EntryNames(reqs'[r].zip)
       /\ Len(reqs'[r].zip) <= Len(reqs[r].zip) + 1
       /\ ReqChecked(reqs[r]) =>
            /\ reqs[r].name \notin EntryNames(reqs[r].zip)
            /\ \/ ReqChecked(reqs'[r]) /\ reqs'[r].zip = reqs[r].zip
                                       /\ reqs'[r].name = reqs[r].name
               \/ reqs'[r].zip = Append(reqs[r].zip, [name |-> reqs[r].name, pages |-> <<>>])
       /\ reqs'[r].zip # reqs[r].zip => \A q \in Requests \ {r} : reqs'[q].zip = reqs[q].zip]_vars

\* a request stands between its check and its insertion while another request
\* has inserted that very name into its own archive
C23_SameNameElsewhere ==
  \E r, q \in Requests :
    /\ r # q
    /\ ReqChecked(reqs[r])
    /\ reqs[r].zip # <<>>
    /\ reqs[r].name \in EntryNames(reqs[q].zip)

\* the addressee the implementation reads in the upload at position pos, and the
\* reference number
CandidateOf(pos) ==
  CASE variant = "express" -> ExpressNameOf[files[pos]]
    [] variant = "vercel"  -> VercelAddresseeOf[files[pos]]
    [] variant = "browser" -> BrowserInfoOf[files[pos]].intestatario
RefOf(pos) ==
  CASE variant = "express" -> Null
    [] variant = "vercel"  -> VercelRefOf[files[pos]]
    [] variant = "browser" -> BrowserInfoOf[files[pos]].fatturaNo
\* the main document of an output: the first of its members, in merge order,
\* whose name has no attachment marker; 0 when all have it
MainOf(o) ==
  LET ms == {k \in 1..Len(o.members) : ~IsAllegatoOf[files[o.members[k]]]}
  IN  IF ms = {} THEN 0 ELSE o.members[CHOOSE k \in ms : \A j \in ms : k <= j]
NamedAfter(o, pos) == NamedAs(o, RefOf(pos), CandidateOf(pos))

\* C24 as stated: whenever the main document of a group yields an addressee, the
\* output is named after it, whatever the attachments hold
C24_NamedFromMain ==
  \A k \in 1..Len(outputs) :
    MainOf(outputs[k]) # 0 /\ Truthy(CandidateOf(MainOf(outputs[k]))) =>
      NamedAfter(outputs[k], MainOf(outputs[k]))

\* C24: the Vercel handler and the in-browser merge read the addressee in the
\* first document of the merge order, which is the main document when the group
\* has one; the Express server reads it in the attachment, and in the main
\* document only when the attachment yields none
C24_NamedFromFirstRead ==
  \A k \in 1..Len(outputs) :
    IF variant = "express"
    THEN IF Truthy(CandidateOf(outputs[k].members[2]))
         THEN NamedAfter(outputs[k], outputs[k].members[2])
         ELSE Truthy(CandidateOf(outputs[k].members[1])) =>
                NamedAfter(outputs[k], outputs[k].members[1])
    ELSE /\ MainOf(outputs[k]) \in {0, outputs[k].members[1]}
         /\ Truthy(CandidateOf(outputs[k].members[1])) =>
              NamedAfter(outputs[k], outputs[k].members[1])

\* an Express output named after the attachment's addressee although the main
\* document yields another
C24_AttachmentNamesOutput ==
  /\ variant = "express"
  /\ \E k \in 1..Len(outputs) :
       /\ Truthy(CandidateOf(outputs[k].members[1]))
       /\ Truthy(CandidateOf(outputs[k].members[2]))
       /\ CandidateOf(outputs[k].members[1]) # CandidateOf(outputs[k].members[2])
       /\ NamedAfter(outputs[k], outputs[k].members[2])
       /\ ~NamedAfter(outputs[k], outputs[k].members[1])

\* a word that starts with an uppercase letter, and a title followed by one to
\* five of them
ReNameWord == Cat(<<Set(Uppers), Plus(Set(Letters \cup {"'", ".", "-"}))>>)
ReTitledCapitalized ==
  Cat(<<WordB, Cap(1, ReTitle), Plus(WS),
        Cap(2, Cat(<<ReNameWord,
                     Rep(Cat(<<Plus(WS), ReNameWord>>), 0, TitledMaxMoreWords)>>))>>)
\* the third heuristic alone gave the addressee out of text
ThirdGave(text, out) ==
  /\ out # Null
  /\ Heuristic1(text) = Null
  /\ Heuristic2(text) = Null

\* C25: the third heuristic yields a candidate only when, in the first 2500
\* characters of the normalized text, a title is followed by one to five words
\* that each start with an uppercase letter
C25_CapitalizedAfterTitle ==
  extOut.done /\ ThirdGave(ExtText, extOut.express) =>
    Match(ReTitledCapitalized, Slice0(ExtText, TopChunkLen)).found

\* a title followed by lowercase words gave the addressee
C25_LowercaseAccepted ==
  /\ extOut.done
  /\ extDoc.pages = <<<<<<"D","o","t","t","."," ","m","a","r","i","o"," ","r","o","s","s","i">>>>>>
  /\ extOut.express = <<"D","o","t","t","."," ","m","a","r","i","o"," ","r","o","s","s","i">>

C27_ErrorOrSuccess == ~(isSuccess /\ error # NoError)

\* a merge succeeded on a list that lost its pair meanwhile, and the next click
\* on the merge button was refused with the indicator still set
C27_RefusedAfterSuccess ==
  /\ isSuccess
  /\ error # NoError
  /\ ~isProcessing
  /\ ~hasAnyPairedGroup
  /\ DocsOf(uiFiles) # formData

\* C28: at most one merge is in flight; a merge that started ends with
\* isProcessing false, and it ends with either the success indicator or an error
\* message set, never both and never neither
C28_OneMergeSettles ==
  /\ [](Len(inFlight) <= 1 /\ (isProcessing <=> inFlight # <<>>))
  /\ (isProcessing ~> ~isProcessing)
  /\ [][isProcessing /\ ~isProcessing' => (isSuccess' <=> error' = NoError)]_vars

\* a merge was started and has failed
C28_MergeFailed ==
  /\ formData # <<>>
  /\ inFlight = <<>>
  /\ ~isProcessing
  /\ ~isSuccess
  /\ error = "Errore interno durante l'unione dei file."

\* the Express server merges a group of the list fs: one with a main file and an
\* attachment that both load
MergesSome(fs) ==
  \E k \in 1..Len(ExpressGroups(fs)) :
    /\ ExpressComplete(ExpressGroups(fs)[k])
    /\ Loads(fs, <<ExpressGroups(fs)[k].main, ExpressGroups(fs)[k].allegato>>)
NoPairAnswer == "Nessuna coppia valida trovata (manca main o allegato)."

\* C29: a list that the page of the Express server submits, which it does when it
\* marks a file as paired, has a group that the server merges, and the server
\* does not answer that there is no valid pair
C29_PairedIsMerged ==
  variant = "express" =>
    \A k \in 1..Len(inFlight) :
      /\ MergesSome(inFlight[k].docs)
      /\ inFlight[k].result.message # NoPairAnswer

\* the page marked two files as paired and the server answered the list with its
\* no-valid-pair failure
C29_PairRefusedByServer ==
  /\ variant = "express"
  /\ formData # <<>>
  /\ DocsOf(uiFiles) = formData
  /\ hasAnyPairedGroup
  /\ error = NoPairAnswer

\* C30: while the success indicator is set the listed files are the files that
\* the last merge submitted
C30_SuccessOfListed == isSuccess => DocsOf(uiFiles) = formData

\* the indicator is set over a list that was changed while the merge was in flight
C30_SuccessOfOtherList ==
  /\ isSuccess
  /\ ~isProcessing
  /\ uiFiles # <<>>
  /\ DocsOf(uiFiles) # formData

====
